---- MODULE Spec2Model ----
(***************************************************************************)
(* A model of the session, transport and version-management core of        *)
(* go-zabbix-api (package zabbix): API.Login / Logout / Version /          *)
(* DetectVersion / ForceVersion / CallWithError, the VersionManager and    *)
(* the version-gated MFA and proxy-group wrappers, the item and host       *)
(* adapters (create and update), ItemsGet with itemsHeadersUnmarshal, the  *)
(* GetByID wrappers, the header conversion functions, the get wrappers     *)
(* HostsGet / UsersGet / AlertsGet / MediaTypesGet and ItemsDeleteByIds.   *)
(*                                                                         *)
(* The repository holds more than one copy of some functions.  The session *)
(* core follows src/unnamed/part_004 and the adapters follow src/host.go;  *)
(* the copy of Version in src/unnamed/part_001 is modelled beside them.    *)
(* The older package of src/base.go (callBytes under Call, CallWithError   *)
(* and CallWithErrorParse, Login, LoginWithoutVersionInit, Version, its    *)
(* version manager, InitializeVersionSupport, ForceVersion, the facade and *)
(* its adapters) is modelled as operations of its own, under the name of   *)
(* the copy, and runs in the specifications SpecBase and SpecFacade.       *)
(*                                                                         *)
(* Strings that the code parses (version strings) are sequences of         *)
(* one-character strings, so that strings.Split and strconv.Atoi are       *)
(* computed as the code computes them.                                     *)
(***************************************************************************)
EXTENDS Integers, Sequences, FiniteSets, TLC

VARIABLES
  Auth,         \* API.Auth: the stored auth token ("" = unauthenticated)
  id,           \* API.id: the int32 correlation-id counter
  ex,           \* API.ex: the mutex, 0 = free, otherwise the holding thread
  config,       \* API.config: Serialize, and whether api.url is a valid URL
  vm,           \* API.versionManager
  itemAdapter,  \* API.itemAdapter
  hostAdapter,  \* API.hostAdapter
  th,           \* per calling thread: position in its current operation
  netCalls      \* number of api.c.Do invocations (transport exchanges)

vars == <<Auth, id, ex, config, vm, itemAdapter, hostAdapter, th, netCalls>>

----------------------------------------------------------------------------
(* Bounds                                                                  *)

\* the number of requests built on one API in a run
MaxCalls == 3

\* the number of threads sharing one API
NumThreads == 2

\* the number of header conversions applied in a row to one value
MaxConversions == 2

\* the number of nested ItemsDeleteByIds frames the goroutine stack holds
MaxDepth == 3

Threads == 1..NumThreads

\* the thread of the sequential specification
Main == CHOOSE t \in Threads : \A u \in Threads : t <= u

----------------------------------------------------------------------------
(* Strings as character sequences                                          *)

EmptyStr == << >>

V640 == <<"6", ".", "4", ".", "0">>

V700 == <<"7", ".", "0", ".", "0">>

V800 == <<"8", ".", "0", ".", "0">>

VInvalid == <<"i", "n", "v", "a", "l", "i", "d", ".", "v", "e", "r", "s", "i", "o", "n">>

VSeven == <<"7">>

\* version strings given to ForceVersion or returned by apiinfo.version
VersionStrings == {V640, V700, V800, VInvalid, VSeven, EmptyStr}

\* tokens the server hands out on user.login
Tokens == {"tokA", "tokB"}

Digits == {"0", "1", "2", "3", "4", "5", "6", "7", "8", "9"}

DigitVal(c) ==
  CASE c = "0" -> 0 [] c = "1" -> 1 [] c = "2" -> 2 [] c = "3" -> 3
    [] c = "4" -> 4 [] c = "5" -> 5 [] c = "6" -> 6 [] c = "7" -> 7
    [] c = "8" -> 8 [] c = "9" -> 9

\* strings.Split(s, "."): the substrings between the dots; a string with no
\* dot (the empty string included) gives the one-element list <<s>>
RECURSIVE Split(_)
Split(s) ==
  IF \A i \in 1..Len(s) : s[i] # "."
  THEN <<s>>
  ELSE LET i == CHOOSE k \in 1..Len(s) :
                  s[k] = "." /\ \A j \in 1..(k - 1) : s[j] # "."
       IN  <<SubSeq(s, 1, i - 1)>> \o Split(SubSeq(s, i + 1, Len(s)))

RECURSIVE DecimalValue(_)
DecimalValue(s) ==
  IF Len(s) = 0 THEN 0
  ELSE 10 * DecimalValue(SubSeq(s, 1, Len(s) - 1)) + DigitVal(s[Len(s)])

\* strconv.Atoi: an optional sign followed by one or more decimal digits;
\* anything else is an error
Atoi(s) ==
  LET signed == Len(s) > 0 /\ s[1] \in {"+", "-"}
      body   == IF signed THEN SubSeq(s, 2, Len(s)) ELSE s
      ok     == Len(body) > 0 /\ \A i \in 1..Len(body) : body[i] \in Digits
  IN  IF ~ok THEN [ok |-> FALSE, val |-> 0]
      ELSE [ok |-> TRUE,
            val |-> IF signed /\ s[1] = "-" THEN 0 - DecimalValue(body)
                    ELSE DecimalValue(body)]

----------------------------------------------------------------------------
(* VersionManager                                                          *)

FeatureUUID == "uuid"

FeatureTags == "tags"

FeatureCompression == "compression"

FeatureHTTPMethods == "http_methods"

FeatureCalculatedItemTypes == "calculated_item_types"

FeatureMFA == "mfa"

FeatureProxyGroup == "proxy_group"

FeatureHistoryPush == "history_push"

FeatureBrowserItem == "browser_item"

FeatureHeadersArrayFormat == "headers_array_format"

FeatureProxyFieldsV7 == "proxy_fields_v7"

\* the features initializeFeatureSupport enables for 6.x and 7.x
Features6 == {FeatureUUID, FeatureTags, FeatureCompression, FeatureHTTPMethods,
              FeatureCalculatedItemTypes}

\* the "Zabbix 7.0+" features
Features7 == {FeatureMFA, FeatureProxyGroup, FeatureHistoryPush,
              FeatureBrowserItem, FeatureHeadersArrayFormat, FeatureProxyFieldsV7}

Features == Features6 \cup Features7

\* NewVersionManager: zero values and an empty feature map
NewVersionManager ==
  [serverVersion |-> EmptyStr, majorVersion |-> 0, minorVersion |-> 0,
   isZabbix6 |-> FALSE, isZabbix7 |-> FALSE,
   supportedFeatures |-> [f \in {} |-> FALSE]]

\* parseVersion lines 570-577, on the tokens of the version string: major
\* and minor are assigned only when there are two tokens and the token
\* parses, and are otherwise what the fields hold
ParsedMajor(parts, major) ==
  IF Len(parts) >= 2 /\ Atoi(parts[1]).ok THEN Atoi(parts[1]).val ELSE major

ParsedMinor(parts, minor) ==
  IF Len(parts) >= 2 /\ Atoi(parts[2]).ok THEN Atoi(parts[2]).val ELSE minor

\* parseVersion line 579: vm.majorVersion == 6
MajorIs6(major) == major = 6

\* parseVersion line 580: vm.majorVersion == 7
MajorIs7(major) == major = 7

\* VersionManager.parseVersion run by one goroutine alone: the flags are
\* recomputed from whatever majorVersion holds after the parse
parseVersion(m) ==
  LET parts == Split(m.serverVersion)
      maj   == ParsedMajor(parts, m.majorVersion)
      min   == ParsedMinor(parts, m.minorVersion)
  IN  [m EXCEPT !.majorVersion = maj, !.minorVersion = min,
                !.isZabbix6 = MajorIs6(maj), !.isZabbix7 = MajorIs7(maj)]

\* the map assignments of initializeFeatureSupport in the order of the
\* source, lines 586-590 and 593-598
FeatureOrder ==
  <<FeatureUUID, FeatureTags, FeatureCompression, FeatureHTTPMethods,
    FeatureCalculatedItemTypes, FeatureMFA, FeatureProxyGroup, FeatureHistoryPush,
    FeatureBrowserItem, FeatureHeadersArrayFormat, FeatureProxyFieldsV7>>

\* one assignment: vm.supportedFeatures[feature] = supported
MapAssigned(m, feature, supported) ==
  [m EXCEPT !.supportedFeatures =
     [f \in (DOMAIN m.supportedFeatures) \cup {feature} |->
        IF f = feature THEN supported ELSE m.supportedFeatures[f]]]

\* the first k assignments of initializeFeatureSupport run by one goroutine
\* alone: the "Zabbix 6.0 features" get isZabbix6 || isZabbix7, the
\* "Zabbix 7.0+ features" get isZabbix7
RECURSIVE FeaturesAssigned(_, _)
FeaturesAssigned(m, k) ==
  IF k = 0 THEN m
  ELSE LET f == FeatureOrder[k]
       IN  MapAssigned(FeaturesAssigned(m, k - 1), f,
                       IF f \in Features6 THEN m.isZabbix6 \/ m.isZabbix7 ELSE m.isZabbix7)

\* VersionManager.initializeFeatureSupport: eleven map assignments
initializeFeatureSupport(m) == FeaturesAssigned(m, Len(FeatureOrder))

\* VersionManager.SetVersion
SetVersion(m, version) ==
  initializeFeatureSupport(parseVersion([m EXCEPT !.serverVersion = version]))

\* VersionManager.IsFeatureSupported: exists && supported
IsFeatureSupported(m, feature) ==
  feature \in DOMAIN m.supportedFeatures /\ m.supportedFeatures[feature]

\* VersionManager.IsZabbix6 / Is60
IsZabbix6(m) == m.isZabbix6

\* VersionManager.IsZabbix7 / Is70
IsZabbix7(m) == m.isZabbix7

initializeAdaptersSixOnly(m) ==
  IF IsZabbix6(m)
  THEN [item |-> "Zabbix6ItemAdapter", host |-> "Zabbix6HostAdapter"]
  ELSE [item |-> "Zabbix7ItemAdapter", host |-> "Zabbix7HostAdapter"]

\* API.initializeAdapters: the pair of strategies for the version manager
initializeAdapters(m) ==
  IF IsZabbix7(m)
  THEN [item |-> "Zabbix7ItemAdapter", host |-> "Zabbix7HostAdapter"]
  ELSE [item |-> "Zabbix6ItemAdapter", host |-> "Zabbix6HostAdapter"]

----------------------------------------------------------------------------
(* Dual-shape fields: HttpHeaders (a map) and []HeaderField (a list)       *)

HeaderNames == {"Accept", "X-Custom"}

HeaderValues == {"text/html", "v2"}

HeaderField(name, value) == [name |-> name, value |-> value]

HeaderFields == {HeaderField(n, v) : n \in HeaderNames, v \in HeaderValues}

\* a nil map, an empty map, a nil list and an empty list all have len 0 and
\* are all omitted by omitempty; the model has one value for the four
NoHeaders == << >>

\* the builtin len of a map or of a slice
len(x) == Cardinality(DOMAIN x)

\* HttpHeaders / map[string]string: a function from the names it holds
HeaderMaps == UNION {[D -> HeaderValues] : D \in SUBSET HeaderNames}

\* []HeaderField of length 0, 1 or 2; a name may appear twice
HeaderLists ==
  {NoHeaders} \cup {<<f>> : f \in HeaderFields}
              \cup {<<f, g>> : f \in HeaderFields, g \in HeaderFields}

\* the orders in which a range loop can visit the keys in D: the iteration
\* order of a Go map is not specified
KeyOrders(D) ==
  {o \in [1..Cardinality(D) -> D] : \A i, j \in 1..Cardinality(D) : i # j => o[i] # o[j]}

\* for name, value := range m { list = append(list, HeaderField{name, value}) }:
\* the lists the loop can build, one per visiting order
AppendAll(m) ==
  {[i \in 1..Len(o) |-> HeaderField(o[i], m[o[i]])] : o \in KeyOrders(DOMAIN m)}

\* for _, h := range list { m[h.Name] = h.Value }: a later entry overwrites
\* an earlier one of the same name
AssignAll(list) ==
  [n \in {list[i].name : i \in 1..Len(list)} |->
     list[CHOOSE i \in 1..Len(list) :
            list[i].name = n /\ \A j \in (i + 1)..Len(list) : list[j].name # n].value]

ConvertHeadersToV7DropLast(headersV6) ==
  {SubSeq(l, 1, Len(l) - 1) : l \in AppendAll(headersV6)}

\* ConvertHeadersToV7: every list the function can return for headersV6
ConvertHeadersToV7(headersV6) == AppendAll(headersV6)

\* ConvertHeadersToV6
ConvertHeadersToV6(headersV7) == AssignAll(headersV7)

----------------------------------------------------------------------------
(* Requests and the per-thread state                                       *)

\* the largest value of the int32 field API.id
MaxInt32 == 2147483647

MinInt32 == (0 - MaxInt32) - 1

AddInt32LostUpdate(x, d) == IF x >= 1 THEN x ELSE x + d

\* atomic.AddInt32: two's-complement wrap at 32 bits
AddInt32(x, d) ==
  IF d > 0 /\ x > MaxInt32 - d THEN MinInt32 + ((d - 1) - (MaxInt32 - x))
  ELSE IF d < 0 /\ x < MinInt32 - d THEN MaxInt32 - (((0 - d) - 1) - (x - MinInt32))
  ELSE x + d

NoReq == [method |-> "", auth |-> "", id |-> 0]

\* the request literal of CallWithError: Auth is api.Auth, whatever the method
CallRequest(method, auth, newid) == [method |-> method, auth |-> auth, id |-> newid]

\* the request literal of Version in part_004, lines 275-280: no Auth member.
\* The copies of Version in part_001 and base.go build theirs with
\* CallRequest, see VersionPart001 and VersionBase
VersionRequest(newid) == [method |-> "apiinfo.version", auth |-> "", id |-> newid]

NoArg == [ids |-> << >>, output |-> "", bad |-> FALSE]

\* no response: nothing was received for the last request of the thread
NoResp == [body |-> "none", error |-> "none", kind |-> "none", val |-> ""]

\* what a thread keeps of the response it got: how far the body could be
\* decoded, the error member and the kind of the result member
Received(res) == [body |-> res.body, error |-> res.error, result |-> res.kind]

\* no value in hand: the thread holds no result of a call
NoVal == [nothing |-> TRUE]

\* a thread that has not called anything yet; after an operation returns
\* the record keeps the operation, its last request, the caller's payload
\* as the operation left it, and the error it returned
Idle == [pc |-> "idle", op |-> "none", req |-> NoReq, arg |-> NoArg, err |-> "nil",
         resp |-> Received(NoResp), val |-> NoVal]

LoginOps == {"Login", "LoginWithToken"}

\* the method names under which the copies of Version ask for the version:
\* "apiinfo.version" in part_004 and part_001, "APIInfo.version" in base.go
VersionMethods == {"apiinfo.version", "APIInfo.version"}

\* the two copies of Version that go through CallWithError
VersionPart001Op == [name |-> "Version(part_001)", method |-> "apiinfo.version", kind |-> "versioncall"]

VersionBaseOp == [name |-> "Version(base.go)", method |-> "APIInfo.version", kind |-> "versionretry"]

\* what Version of base.go keeps of the session while it runs: the token it
\* saved (auth := api.Auth) and how many calls it has made
VersionBaseArg(auth, calls) ==
  [ids |-> << >>, output |-> "", bad |-> FALSE, auth |-> auth, calls |-> calls]

\* what user.login hands back in a string result: a token, or ""
LoginTokens == Tokens \cup {""}

\* what a decoded response envelope can carry as its result member: a
\* string, null, or a value of another type
LoginResults ==
  [kind : {"string"}, val : LoginTokens]
    \cup {[kind |-> "null", val |-> ""], [kind |-> "other", val |-> ""]}

VersionResults == [kind : {"string"}, val : VersionStrings] \cup {[kind |-> "other", val |-> EmptyStr]}

NoResult == [kind |-> "none", val |-> ""]


\* the version-gated wrappers: feature checked, method called, and what the
\* wrapper does around the call
MFACreateOp == [name |-> "MFACreate", feature |-> FeatureMFA, method |-> "mfa.create", kind |-> "create"]

MFAGetOp == [name |-> "MFAGet", feature |-> FeatureMFA, method |-> "mfa.get", kind |-> "get"]

MFAUpdateOp == [name |-> "MFAUpdate", feature |-> FeatureMFA, method |-> "mfa.update", kind |-> "update"]

MFADeleteOp == [name |-> "MFADelete", feature |-> FeatureMFA, method |-> "mfa.delete", kind |-> "delete"]

UserResetTOTPOp == [name |-> "UserResetTOTP", feature |-> FeatureMFA, method |-> "user.resetotp", kind |-> "update"]

ProxyGroupCreateOp == [name |-> "ProxyGroupCreate", feature |-> FeatureProxyGroup, method |-> "proxygroup.create", kind |-> "create"]

ProxyGroupGetOp == [name |-> "ProxyGroupGet", feature |-> FeatureProxyGroup, method |-> "proxygroup.get", kind |-> "get"]

ProxyGroupUpdateOp == [name |-> "ProxyGroupUpdate", feature |-> FeatureProxyGroup, method |-> "proxygroup.update", kind |-> "update"]

ProxyGroupDeleteOp == [name |-> "ProxyGroupDelete", feature |-> FeatureProxyGroup, method |-> "proxygroup.delete", kind |-> "delete"]

Proxy7CreateOp == [name |-> "Proxy7Create", feature |-> FeatureProxyGroup, method |-> "proxy.create", kind |-> "create"]

Proxy7GetOp == [name |-> "Proxy7Get", feature |-> FeatureProxyGroup, method |-> "proxy.get", kind |-> "get"]

Proxy7UpdateOp == [name |-> "Proxy7Update", feature |-> FeatureProxyGroup, method |-> "proxy.update", kind |-> "update"]

GatedOps == {MFACreateOp, MFAGetOp, MFAUpdateOp, MFADeleteOp, UserResetTOTPOp,
             ProxyGroupCreateOp, ProxyGroupGetOp, ProxyGroupUpdateOp, ProxyGroupDeleteOp,
             Proxy7CreateOp, Proxy7GetOp, Proxy7UpdateOp}

GatedNames == {g.name : g \in GatedOps}

GatedOp(name) == CHOOSE g \in GatedOps : g.name = name

\* the create and update operations that go through a version adapter
ItemsCreateOp == [name |-> "ItemsCreate", family |-> "item", method |-> "item.create", kind |-> "create"]

ItemsUpdateOp == [name |-> "ItemsUpdate", family |-> "item", method |-> "item.update", kind |-> "update"]

CreateHostsOp == [name |-> "CreateHosts", family |-> "host", method |-> "host.create", kind |-> "create"]

UpdateHostsOp == [name |-> "UpdateHosts", family |-> "host", method |-> "host.update", kind |-> "update"]

\* the facade of base.go, lines 698-751: API.CreateItems, API.UpdateItems,
\* API.CreateHosts and API.UpdateHosts hand the slice to the adapter of
\* base.go, which goes on to the plain wrapper of the method
APICreateItemsOp == [name |-> "API.CreateItems", family |-> "item", method |-> "item.create", kind |-> "create"]

APIUpdateItemsOp == [name |-> "API.UpdateItems", family |-> "item", method |-> "item.update", kind |-> "update"]

APICreateHostsOp == [name |-> "API.CreateHosts", family |-> "host", method |-> "host.create", kind |-> "create"]

APIUpdateHostsOp == [name |-> "API.UpdateHosts", family |-> "host", method |-> "host.update", kind |-> "update"]

FacadeOps == {APICreateItemsOp, APIUpdateItemsOp, APICreateHostsOp, APIUpdateHostsOp}

AdapterOps == {ItemsCreateOp, ItemsUpdateOp, CreateHostsOp, UpdateHostsOp} \cup FacadeOps

AdapterNames == {a.name : a \in AdapterOps}

AdapterOp(name) == CHOOSE a \in AdapterOps : a.name = name

\* the GetByID wrappers: the get method under them and the feature that
\* get is gated on ("" when it is not gated)
HostGetByIDOp == [name |-> "HostGetByID", method |-> "host.get", feature |-> ""]

ItemGetByIDOp == [name |-> "ItemGetByID", method |-> "item.get", feature |-> ""]

MFAGetByIDOp == [name |-> "MFAGetByID", method |-> "mfa.get", feature |-> FeatureMFA]

GetByIDOps == {HostGetByIDOp, ItemGetByIDOp, MFAGetByIDOp}

GetByIDNames == {g.name : g \in GetByIDOps}

\* the get wrappers that check no feature: the method they call and the
\* output they ask for when the caller names none, "extend" for HostsGet, a
\* fixed list of fields for UsersGet, AlertsGet and MediaTypesGet
HostsGetOp == [name |-> "HostsGet", method |-> "host.get", output |-> "extend", fields |-> << >>]

UsersGetOp ==
  [name |-> "UsersGet", method |-> "user.get", output |-> "",
   fields |-> <<"userid", "username", "name", "surname", "roleid">>]

AlertsGetOp ==
  [name |-> "AlertsGet", method |-> "alert.get", output |-> "",
   fields |-> <<"alertid", "actionid", "eventid", "clock", "status">>]

MediaTypesGetOp ==
  [name |-> "MediaTypesGet", method |-> "mediatype.get", output |-> "",
   fields |-> <<"mediatypeid", "name", "type", "status", "maxattempts">>]

GetOps == {HostsGetOp, UsersGetOp, AlertsGetOp, MediaTypesGetOp}

GetNames == {g.name : g \in GetOps}

GetOp(name) == CHOOSE g \in GetOps : g.name = name

\* Login and LoginWithoutVersionInit of base.go
BaseLoginOps == {"Login(base.go)", "LoginWithoutVersionInit"}

\* what the wrapper of operation op does around its CallWithError
OpKind(op) ==
  IF op \in LoginOps THEN "login"
  ELSE IF op = "LoginExtended" THEN "loginx"
  ELSE IF op = "Logout" THEN "logout"
  ELSE IF op = VersionPart001Op.name THEN VersionPart001Op.kind
  ELSE IF op = VersionBaseOp.name THEN VersionBaseOp.kind
  ELSE IF op \in BaseLoginOps THEN "loginbase"
  ELSE IF op \in {"CallWithErrorParse", "CallWithErrorParse(base.go)"} THEN "parse"
  ELSE IF op \in GatedNames THEN GatedOp(op).kind
  ELSE IF op \in AdapterNames THEN AdapterOp(op).kind
  ELSE IF op \in GetByIDNames THEN "getbyid"
  ELSE IF op \in GetNames THEN "get"
  ELSE IF op = "ItemsGet" THEN "getitems"
  ELSE "plain"

\* Version of base.go is running, on its own or under the operation of the
\* thread (VersionManager.DetectVersion, InitializeVersionSupport, Login of
\* base.go): the payload of the thread is what Version keeps
InVersionBase(r) == "calls" \in DOMAIN r.arg

\* what the function that called the transport does with what it returns
KindOf(r) == IF InVersionBase(r) THEN VersionBaseOp.kind ELSE OpKind(r.op)

\* payloads a caller hands to a gated wrapper: a list of resources (their id
\* fields) for create, update and delete, a params map for get
CallerPayloads(kind) ==
  IF kind = "get"
  THEN {[ids |-> << >>, output |-> o, bad |-> FALSE] : o \in {"", "name"}}
  ELSE {[ids |-> i, output |-> "", bad |-> FALSE] : i \in {<<"">>, <<"5">>, <<"", "5">>}}

\* what a caller hands to HostsGet, UsersGet, AlertsGet or MediaTypesGet:
\* params or options
\* with or without an output; the output member of a request is a string or
\* a list of field names (fields)
CallerOptions ==
  {[ids |-> << >>, output |-> o, fields |-> << >>, bad |-> FALSE] : o \in {"", "name"}}

\* the resources a get called with one id can match: none, one or several
Matches == {<< >>, <<"101">>, <<"101", "102">>, <<"101", "102", "103">>}

\* the raw JSON of a dual-shape member of a received item: absent, "[]", an
\* object, an array, or some other JSON value (a string, a number, null);
\* ok tells whether it decodes into the Go type of its shape
Raw(shape, ok, data) == [shape |-> shape, ok |-> ok, data |-> data]

RawAbsent == Raw("absent", TRUE, NoHeaders)

WireHeaders ==
  {RawAbsent, Raw("emptyarray", TRUE, NoHeaders),
   Raw("object", TRUE, [n \in {"Accept"} |-> "text/html"]),
   Raw("object", FALSE, NoHeaders),
   Raw("array", TRUE, <<HeaderField("Accept", "text/html")>>),
   Raw("array", TRUE, <<HeaderField("Accept", "text/html"), HeaderField("X-Custom", "v2")>>),
   Raw("array", FALSE, NoHeaders),
   Raw("other", TRUE, NoHeaders)}

WireQueryFields ==
  {RawAbsent, Raw("object", TRUE, [n \in {"X-Custom"} |-> "v2"]),
   Raw("array", TRUE, <<HeaderField("X-Custom", "v2")>>),
   Raw("array", FALSE, NoHeaders)}

\* the raw applications member of a received item: absent, "[]", a list of
\* applications, or a value that does not decode into a list of them
WireApplications ==
  {RawAbsent, Raw("emptyarray", TRUE, NoHeaders), Raw("array", TRUE, <<"7">>),
   Raw("object", FALSE, NoHeaders)}

WireItem(a, h, q) == [RawApplications |-> a, RawHeaders |-> h, RawQueryFields |-> q]

\* what json.Unmarshal leaves in the Items slice of ItemsGet: no item, or
\* one item with its raw members
WireItemLists ==
  {<< >>} \cup {<<WireItem(RawAbsent, h, q)>> : h \in WireHeaders, q \in WireQueryFields}
          \cup {<<WireItem(a, RawAbsent, RawAbsent)>> : a \in WireApplications}

\* the ids a server that has created n resources lists in its response
ServerIds(n) == SubSeq(<<"101", "102", "103">>, 1, n)

\* the id lists a create response can carry for n payloads: one id per
\* payload, one id short, or one id more
IdLists(n) == {ServerIds(k) : k \in {n, n + 1} \cup (IF n > 0 THEN {n - 1} ELSE {})}

\* the result member of a decoded, error-free response to the request of a
\* thread.  login: a string, null or some other value.  create: an object with
\* the id list of the family ("ids"), an object without it ("object"), or a
\* value that is no object ("other").  get: a list that decodes into the
\* slice of the wrapper ("list"), a list of which json.Unmarshal decodes
\* every member it can and then returns a type error ("partial", item.get
\* only), or a value that is no list ("other").  version: a string or some
\* other value
ResultsFor(kind, arg) ==
  IF kind \in {"login", "loginx", "loginbase"} THEN LoginResults
  ELSE IF kind \in {VersionPart001Op.kind, VersionBaseOp.kind} THEN VersionResults
  ELSE IF kind = "create"
       THEN {[kind |-> "ids", val |-> v] : v \in IdLists(Len(arg.ids))}
              \cup {[kind |-> "object", val |-> << >>], [kind |-> "other", val |-> << >>]}
  ELSE IF kind \in {"get", "parse"}
       THEN {[kind |-> "list", val |-> << >>], [kind |-> "other", val |-> << >>]}
  ELSE IF kind = "getbyid"
       THEN {[kind |-> "list", val |-> m] : m \in Matches} \cup {[kind |-> "other", val |-> << >>]}
  ELSE IF kind = "getitems"
       THEN {[kind |-> k, val |-> w] : k \in {"list", "partial"}, w \in WireItemLists}
              \cup {[kind |-> "other", val |-> << >>]}
  ELSE {NoResult}

----------------------------------------------------------------------------
(* Items, hosts and the version adapters                                   *)

MonitoredByServer == 0

MonitoredByProxy == 1

MonitoredByProxyGroup == 2

\* the dual-shape fields of an Item
Item(h6, h7, q6, q7) ==
  [HeadersV6 |-> h6, HeadersV7 |-> h7, QueryFieldsV6 |-> q6, QueryFieldsV7 |-> q7]

\* the proxy fields of a Host
Host(proxyHostID, proxyID, monitoredBy) ==
  [ProxyHostID |-> proxyHostID, ProxyID |-> proxyID, MonitoredBy |-> monitoredBy]

\* Zabbix7ItemAdapter.CreateItems of host.go, the loop body: the items it
\* can leave in the slice, one per order in which the maps are ranged over.
\* The copy of base.go is Zabbix7CreateItemBase
Zabbix7CreateItem(item) ==
  {[item EXCEPT !.HeadersV7 = h7,
                !.HeadersV6 = IF len(item.HeadersV6) > 0 THEN NoHeaders ELSE @,
                !.QueryFieldsV7 = q7,
                !.QueryFieldsV6 = IF len(item.QueryFieldsV6) > 0 THEN NoHeaders ELSE @] :
     h7 \in IF len(item.HeadersV6) > 0 THEN AppendAll(item.HeadersV6) ELSE {item.HeadersV7},
     q7 \in IF len(item.QueryFieldsV6) > 0 THEN AppendAll(item.QueryFieldsV6)
            ELSE {item.QueryFieldsV7}}

\* Zabbix7ItemAdapter.UpdateItems of host.go, the loop body.  The copy of
\* base.go is Zabbix7UpdateItemBase
Zabbix7UpdateItem(item) ==
  {[item EXCEPT !.HeadersV7 = h7,
                !.HeadersV6 = IF len(item.HeadersV6) > 0 THEN NoHeaders ELSE @,
                !.QueryFieldsV7 = q7,
                !.QueryFieldsV6 = IF len(item.QueryFieldsV6) > 0 THEN NoHeaders ELSE @] :
     h7 \in IF len(item.HeadersV6) > 0 THEN AppendAll(item.HeadersV6) ELSE {item.HeadersV7},
     q7 \in IF len(item.QueryFieldsV6) > 0 THEN AppendAll(item.QueryFieldsV6)
            ELSE {item.QueryFieldsV7}}

\* Zabbix6ItemAdapter.CreateItems of host.go, the loop body
Zabbix6CreateItem(item) ==
  {[item EXCEPT !.HeadersV6 = IF len(item.HeadersV7) > 0 THEN AssignAll(item.HeadersV7) ELSE @,
                !.HeadersV7 = IF len(item.HeadersV7) > 0 THEN NoHeaders ELSE @,
                !.QueryFieldsV6 = IF len(item.QueryFieldsV7) > 0
                                  THEN AssignAll(item.QueryFieldsV7) ELSE @,
                !.QueryFieldsV7 = IF len(item.QueryFieldsV7) > 0 THEN NoHeaders ELSE @]}

\* Zabbix6ItemAdapter.UpdateItems, the loop body
Zabbix6UpdateItem(item) ==
  {[item EXCEPT !.HeadersV6 = IF len(item.HeadersV7) > 0 THEN AssignAll(item.HeadersV7) ELSE @,
                !.HeadersV7 = IF len(item.HeadersV7) > 0 THEN NoHeaders ELSE @,
                !.QueryFieldsV6 = IF len(item.QueryFieldsV7) > 0
                                  THEN AssignAll(item.QueryFieldsV7) ELSE @,
                !.QueryFieldsV7 = IF len(item.QueryFieldsV7) > 0 THEN NoHeaders ELSE @]}

\* Zabbix6HostAdapter.CreateHosts, the loop body
Zabbix6CreateHost(host) ==
  {[host EXCEPT !.ProxyHostID = IF host.ProxyID # "" /\ host.ProxyHostID = ""
                                THEN host.ProxyID ELSE @,
                !.MonitoredBy = 0]}

\* Zabbix6HostAdapter.UpdateHosts, the loop body
Zabbix6UpdateHost(host) ==
  {[host EXCEPT !.ProxyHostID = IF host.ProxyID # "" /\ host.ProxyHostID = ""
                                THEN host.ProxyID ELSE @,
                !.MonitoredBy = 0]}

\* the second statement of the Zabbix 7 host loops of host.go: monitored_by
\* defaults to "proxy" when a proxy id is present and the field is unset.
\* The loops of base.go are Zabbix7CreateHostBase and Zabbix7UpdateHostBase
DefaultMonitoredBy(host) ==
  IF host.ProxyID # "" /\ host.MonitoredBy = 0
  THEN [host EXCEPT !.MonitoredBy = MonitoredByProxy]
  ELSE host

\* Zabbix7HostAdapter.CreateHosts of host.go, the loop body
Zabbix7CreateHost(host) ==
  {DefaultMonitoredBy([host EXCEPT !.ProxyID = IF host.ProxyHostID # "" /\ host.ProxyID = ""
                                               THEN host.ProxyHostID ELSE @])}

\* Zabbix7HostAdapter.UpdateHosts of host.go, the loop body
Zabbix7UpdateHost(host) ==
  {DefaultMonitoredBy([host EXCEPT !.ProxyID = IF host.ProxyHostID # "" /\ host.ProxyID = ""
                                               THEN host.ProxyHostID ELSE @])}

\* Zabbix7ItemAdapter.CreateItems of base.go, lines 259-271, the loop body:
\* the list is built from a non-empty map, the map stays as it is, and the
\* query fields are not looked at
Zabbix7CreateItemBase(item) ==
  {[item EXCEPT !.HeadersV7 = h7] :
     h7 \in IF len(item.HeadersV6) > 0 THEN AppendAll(item.HeadersV6) ELSE {item.HeadersV7}}

\* Zabbix7ItemAdapter.UpdateItems of base.go, lines 283-294, the loop body
Zabbix7UpdateItemBase(item) ==
  {[item EXCEPT !.HeadersV7 = h7] :
     h7 \in IF len(item.HeadersV6) > 0 THEN AppendAll(item.HeadersV6) ELSE {item.HeadersV7}}

\* Zabbix6ItemAdapter.CreateItems of base.go, lines 190-199, the loop body:
\* the map is built from a non-empty list and the list stays as it is
Zabbix6CreateItemBase(item) ==
  {[item EXCEPT !.HeadersV6 = IF len(item.HeadersV7) > 0 THEN AssignAll(item.HeadersV7) ELSE @]}

\* Zabbix6ItemAdapter.UpdateItems of base.go, lines 211-219, the loop body
Zabbix6UpdateItemBase(item) ==
  {[item EXCEPT !.HeadersV6 = IF len(item.HeadersV7) > 0 THEN AssignAll(item.HeadersV7) ELSE @]}

\* Zabbix6HostAdapter.CreateHosts of base.go, lines 337-341, the loop body
Zabbix6CreateHostBase(host) ==
  {[host EXCEPT !.ProxyHostID = IF host.ProxyID # "" /\ host.ProxyHostID = ""
                                THEN host.ProxyID ELSE @]}

\* Zabbix6HostAdapter.UpdateHosts of base.go, lines 353-357, the loop body
Zabbix6UpdateHostBase(host) ==
  {[host EXCEPT !.ProxyHostID = IF host.ProxyID # "" /\ host.ProxyHostID = ""
                                THEN host.ProxyID ELSE @]}

\* Zabbix7HostAdapter.CreateHosts of base.go, lines 392-400, the loop body:
\* monitored_by becomes "proxy" whenever it is unset, proxy or no proxy
Zabbix7CreateHostBase(host) ==
  {[host EXCEPT !.ProxyID = IF host.ProxyHostID # "" /\ host.ProxyID = ""
                            THEN host.ProxyHostID ELSE @,
                !.MonitoredBy = IF host.MonitoredBy = 0 THEN MonitoredByProxy ELSE @]}

\* Zabbix7HostAdapter.UpdateHosts of base.go, lines 412-416, the loop body:
\* monitored_by is not looked at
Zabbix7UpdateHostBase(host) ==
  {[host EXCEPT !.ProxyID = IF host.ProxyHostID # "" /\ host.ProxyID = ""
                            THEN host.ProxyHostID ELSE @]}

\* the codes of the error member a server puts in an envelope
ServerErrors == {"-32602", "-32500"}

\* a decoded envelope: its error member ("none" when it has none) and its
\* result member
Envelope(error, r) == [body |-> "json", error |-> error, kind |-> r.kind, val |-> r.val]

\* what can come back once the exchange has returned: a body that cannot be
\* read or that is no envelope,
Unusable == {[NoResp EXCEPT !.body = b] : b \in {"unreadable", "undecodable"}}

\* an envelope with a result and no error member,
Successes(kind, arg) == {Envelope("none", r) : r \in ResultsFor(kind, arg)}

\* an envelope with an error member and no result,
BareErrors == {Envelope(e, NoResult) : e \in ServerErrors}

\* or an envelope with an error member and a well-formed result beside it
ErrorsWithResult(kind, arg) ==
  {Envelope(e, r) : e \in ServerErrors,
                    r \in {x \in ResultsFor(kind, arg) : x.kind \in {"string", "ids"}}}

----------------------------------------------------------------------------
(* Receiving items, and GetByID                                            *)

\* itemsHeadersUnmarshal, first loop, one item: the three header fields
\* are reset, then the raw member is decoded in the shape its first byte
\* announces; a decoding error panics
UnmarshalHeaders(raw) ==
  CASE raw.shape = "object" /\ raw.ok ->
         [panic |-> FALSE, Headers |-> raw.data, HeadersV6 |-> raw.data, HeadersV7 |-> NoHeaders]
    [] raw.shape = "array" /\ raw.ok ->
         [panic |-> FALSE, Headers |-> AssignAll(raw.data), HeadersV6 |-> NoHeaders,
          HeadersV7 |-> raw.data]
    [] raw.shape \in {"object", "array"} /\ ~raw.ok ->
         [panic |-> TRUE, Headers |-> NoHeaders, HeadersV6 |-> NoHeaders, HeadersV7 |-> NoHeaders]
    [] OTHER ->
         [panic |-> FALSE, Headers |-> NoHeaders, HeadersV6 |-> NoHeaders, HeadersV7 |-> NoHeaders]

\* itemsHeadersUnmarshal, second loop, one item
UnmarshalQueryFields(raw) ==
  CASE raw.shape = "object" /\ raw.ok ->
         [panic |-> FALSE, QueryFieldsV6 |-> raw.data, QueryFieldsV7 |-> NoHeaders]
    [] raw.shape = "array" /\ raw.ok ->
         [panic |-> FALSE, QueryFieldsV6 |-> NoHeaders, QueryFieldsV7 |-> raw.data]
    [] raw.shape \in {"object", "array"} /\ ~raw.ok ->
         [panic |-> TRUE, QueryFieldsV6 |-> NoHeaders, QueryFieldsV7 |-> NoHeaders]
    [] OTHER ->
         [panic |-> FALSE, QueryFieldsV6 |-> NoHeaders, QueryFieldsV7 |-> NoHeaders]

\* itemsHeadersUnmarshal lines 433-447, one item: a non-empty applications
\* member other than "[]" is decoded into Applications and a decoding error
\* panics; the ids of the applications become the Applications of the item
UnmarshalApplications(raw) ==
  CASE raw.shape \in {"absent", "emptyarray"} -> [panic |-> FALSE, Applications |-> << >>]
    [] raw.ok -> [panic |-> FALSE, Applications |-> raw.data]
    [] OTHER -> [panic |-> TRUE, Applications |-> << >>]

\* itemsHeadersUnmarshal on the slice json.Unmarshal left (nil when nothing
\* was decoded): whether it panics, and the slice it leaves when it does not
itemsHeadersUnmarshal(items) ==
  [panic |-> \E i \in 1..Len(items) :
                \/ UnmarshalApplications(items[i].RawApplications).panic
                \/ UnmarshalHeaders(items[i].RawHeaders).panic
                \/ UnmarshalQueryFields(items[i].RawQueryFields).panic,
   items |-> [i \in 1..Len(items) |->
                LET a == UnmarshalApplications(items[i].RawApplications)
                    h == UnmarshalHeaders(items[i].RawHeaders)
                    q == UnmarshalQueryFields(items[i].RawQueryFields)
                IN  [RawApplications |-> items[i].RawApplications,
                     RawHeaders |-> items[i].RawHeaders,
                     RawQueryFields |-> items[i].RawQueryFields,
                     Applications |-> a.Applications,
                     Headers |-> h.Headers, HeadersV6 |-> h.HeadersV6, HeadersV7 |-> h.HeadersV7,
                     QueryFieldsV6 |-> q.QueryFieldsV6, QueryFieldsV7 |-> q.QueryFieldsV7]]]

\* ExpectedOneResult(n).Error()
ExpectedOneResult(n) ==
  <<"Expected exactly one result, got 0.", "Expected exactly one result, got 1.",
    "Expected exactly one result, got 2.", "Expected exactly one result, got 3.">>[n + 1]

FirstResult(got) ==
  IF Len(got) >= 1 THEN [ret |-> got[1], err |-> "nil"]
  ELSE [ret |-> "nil", err |-> ExpectedOneResult(Len(got))]

\* the tail of every GetByID: the single match, or the cardinality error
OneResult(got) ==
  IF Len(got) = 1 THEN [ret |-> got[1], err |-> "nil"]
  ELSE [ret |-> "nil", err |-> ExpectedOneResult(Len(got))]

\* the payload of a get that returns resources: got is what the get under a
\* GetByID returned (its slice and its error), ret what the operation returns
GetArg(output) ==
  [ids |-> << >>, output |-> output, bad |-> FALSE, got |-> << >>, geterr |-> "nil", ret |-> "nil"]

----------------------------------------------------------------------------
(* Init                                                                    *)

\* NewAPI: no token, id 0, a fresh version manager, no adapters
Init ==
  /\ Auth = ""
  /\ id = 0
  /\ ex = 0
  /\ config \in [Serialize : BOOLEAN, urlOK : BOOLEAN]
  /\ vm = NewVersionManager
  /\ itemAdapter = "nil"
  /\ hostAdapter = "nil"
  /\ th = [t \in Threads |-> Idle]
  /\ netCalls = 0

----------------------------------------------------------------------------
(* Steps of the operations                                                 *)

Set(t, rec) == [th EXCEPT ![t] = rec]

\* the value a goroutine holds in a local variable between two of its
\* steps, under the name of what it is: the decoded result of the call that
\* has returned to operation op
Hold(op, res) ==
  CASE OpKind(op) \in {VersionPart001Op.kind, VersionBaseOp.kind} -> NoVal
    [] res.kind \in {"string", "null"} -> [token |-> res.val]
    [] res.kind = "ids" -> [ids |-> res.val]
    [] res.kind \in {"list", "partial"} /\ OpKind(op) = "getitems" -> [items |-> res.val]
    [] res.kind \in {"list", "partial"} -> [list |-> res.val]
    [] OTHER -> NoVal

\* the same for a call made through callBytes of base.go: Version of
\* base.go holds the response of its call, whose result is the version
HoldBase(r, res) ==
  IF KindOf(r) # VersionBaseOp.kind THEN Hold(r.op, res)
  ELSE IF res.kind = "string" THEN [version |-> res.val]
  ELSE NoVal

\* the value held
Held(v) ==
  CASE "token" \in DOMAIN v -> v.token
    [] "version" \in DOMAIN v -> v.version
    [] "ids" \in DOMAIN v -> v.ids
    [] "items" \in DOMAIN v -> v.items
    [] "list" \in DOMAIN v -> v.list
    [] OTHER -> << >>

\* an operation of thread t returns err to its caller
Returned(t, err, arg) == [th[t] EXCEPT !.pc = "idle", !.err = err, !.arg = arg, !.val = NoVal]

\* a runtime panic in goroutine t (failed type assertion, index out of
\* range, panic(err)) or a fatal error of the runtime: the process ends, and
\* every goroutine with it
Panicked(t) == [u \in Threads |-> [th[u] EXCEPT !.pc = "panic"]]

NeedsDetectAlways(m) == TRUE

\* Login line 207: detect only while no version string is stored
NeedsDetect(m) == m.serverVersion = EmptyStr

\* Logout lines 267-269: the token is cleared when the call returned no error
LogoutToken(err, auth) == IF err = "nil" THEN "" ELSE auth

\* the calls explored: MaxCalls from a new session, and, for a session that
\* is about to use up its int32 ids, up to MaxCalls past the largest id
InBudget(x) ==
  \/ x >= 0 /\ x < MaxCalls
  \/ x > MaxInt32 - MaxCalls
  \/ x < MinInt32 + MaxCalls

\* where CallWithError goes once its request literal is complete, lines
\* 467-470: in serialize mode it waits for the lock
Entry == IF config.Serialize THEN "lock" ELSE "send"

\* CallWithError lines 459-465, entered by operation op: the request literal
\* reads api.Auth (line 463) and calls atomic.AddInt32 (line 464).  The read
\* is unsynchronised and Go does not order it with the call, so the step
\* makes one of the two accesses and leaves the other to ReadAuth or AddId;
\* the member not yet evaluated holds its zero value meanwhile
BuildCall(t, op, method, arg) ==
  /\ InBudget(id)
  /\ \/ /\ id' = id
        /\ th' = Set(t, [pc |-> "id", op |-> op, req |-> CallRequest(method, Auth, NoReq.id),
                         arg |-> arg, err |-> "nil", resp |-> Received(NoResp), val |-> NoVal])
     \/ /\ id' = AddInt32(id, 1)
        /\ th' = Set(t, [pc |-> "auth", op |-> op, req |-> CallRequest(method, NoReq.auth, id'),
                         arg |-> arg, err |-> "nil", resp |-> Received(NoResp), val |-> NoVal])
  /\ UNCHANGED <<Auth, ex, config, vm, itemAdapter, hostAdapter, netCalls>>

\* CallWithError line 463, evaluated after line 464: Auth: api.Auth
ReadAuth(t) ==
  /\ th[t].pc = "auth"
  /\ th' = Set(t, [th[t] EXCEPT !.pc = Entry, !.req.auth = Auth])
  /\ UNCHANGED <<Auth, id, ex, config, vm, itemAdapter, hostAdapter, netCalls>>

\* CallWithError line 464, evaluated after line 463: ID: atomic.AddInt32
AddId(t) ==
  /\ th[t].pc = "id"
  /\ InBudget(id)
  /\ id' = AddInt32(id, 1)
  /\ th' = Set(t, [th[t] EXCEPT !.pc = Entry, !.req.id = id'])
  /\ UNCHANGED <<Auth, ex, config, vm, itemAdapter, hostAdapter, netCalls>>

\* Version lines 275-280: the request literal of Version, no lock
BuildVersion(t, op, arg) ==
  /\ InBudget(id)
  /\ id' = AddInt32(id, 1)
  /\ th' = Set(t, [pc |-> "vsend", op |-> op, req |-> VersionRequest(id'),
                   arg |-> arg, err |-> "nil", resp |-> Received(NoResp), val |-> NoVal])

\* for i, id := range mfaids { mfas[i].MFAID = id.(string) } (MFACreate,
\* ProxyGroupCreate, Proxy7Create): the payload at each position of the id
\* list takes the id at that position; an id list longer than the payload
\* slice indexes past its end and panics
AssignIds(ids, val) ==
  [panic |-> Len(val) > Len(ids),
   ids |-> [i \in 1..Len(ids) |-> IF i <= Len(val) THEN val[i] ELSE ids[i]]]

\* for i := range items { items[i].ItemID = itemids[i].(string) }
\* (createItemsLegacy, ItemsCreate, HostsCreate): every payload takes the id
\* at its position; an id list shorter than the payload slice is indexed
\* past its end and panics
AssignEach(ids, val) ==
  [panic |-> Len(val) < Len(ids),
   ids |-> [i \in 1..Len(ids) |-> IF i <= Len(val) THEN val[i] ELSE ids[i]]]

\* MFACreate lines 64-73, ProxyGroupCreate lines 56-65, Proxy7Create lines
\* 232-241: the result is decoded into a map (a value that is no object is
\* the decode error), the id list is type-asserted (an object without it
\* panics), then the ids are assigned
AssignCreated(res, ids) ==
  IF res.kind = "other" THEN [panic |-> FALSE, err |-> "result", ids |-> ids]
  ELSE IF res.kind # "ids" THEN [panic |-> TRUE, err |-> "nil", ids |-> ids]
  ELSE [panic |-> AssignIds(ids, res.val).panic, err |-> "nil", ids |-> AssignIds(ids, res.val).ids]

\* createItemsLegacy lines 789-801: decoded and asserted like MFACreate, the
\* loop ranges over the items
createItemsLegacy(res, ids) ==
  IF res.kind = "other" THEN [panic |-> FALSE, err |-> "result", ids |-> ids]
  ELSE IF res.kind # "ids" THEN [panic |-> TRUE, err |-> "nil", ids |-> ids]
  ELSE [panic |-> AssignEach(ids, res.val).panic, err |-> "nil", ids |-> AssignEach(ids, res.val).ids]

\* HostsCreate lines 149-158: no decode step; the result is type-asserted to
\* a map and its hostids to a list, so any other result panics; the loop
\* ranges over the hosts
HostsCreate(res, ids) ==
  IF res.kind # "ids" THEN [panic |-> TRUE, err |-> "nil", ids |-> ids]
  ELSE [panic |-> AssignEach(ids, res.val).panic, err |-> "nil", ids |-> AssignEach(ids, res.val).ids]

\* ItemsCreate of item_prototype.go, lines 614-618, the wrapper the item
\* adapters of base.go call: the result is type-asserted like that of
\* HostsCreate, the loop ranges over the returned ids
ItemsCreatePlain(res, ids) ==
  IF res.kind # "ids" THEN [panic |-> TRUE, err |-> "nil", ids |-> ids]
  ELSE [panic |-> AssignIds(ids, res.val).panic, err |-> "nil", ids |-> AssignIds(ids, res.val).ids]

\* the tail of the create wrapper under operation op
Created(op, res, ids) ==
  IF op \in {"CreateHosts", APICreateHostsOp.name} THEN HostsCreate(res, ids)
  ELSE IF op = "ItemsCreate" THEN createItemsLegacy(res, ids)
  ELSE IF op = APICreateItemsOp.name THEN ItemsCreatePlain(res, ids)
  ELSE AssignCreated(res, ids)

LoginErrorOfResultOnly(err, res) ==
  IF res.kind \notin {"string", "null"} THEN "result" ELSE "nil"

\* Login lines 195-203: the error of CallWithError, else the error of
\* decoding the result into the token string; json.Unmarshal decodes null
\* into a string without error and leaves the string as it is, empty
LoginError(err, res) ==
  IF err # "nil" THEN err
  ELSE IF res.kind \notin {"string", "null"} THEN "result"
  ELSE "nil"

\* Version of part_001 lines 246-251: the error of the call is returned;
\* otherwise the result is type-asserted to a string, which panics on any
\* other value
VersionReturned(t, err, res) ==
  IF err # "nil" THEN Set(t, Returned(t, err, th[t].arg))
  ELSE IF res.kind # "string" THEN Panicked(t)
  ELSE Set(t, Returned(t, "nil", th[t].arg))

\* the error an operation of base.go returns when the Version call under it
\* returned err: Version returns it, VersionManager.DetectVersion wraps it
\* (line 66), InitializeVersionSupport wraps that (line 546), and Login
\* prints it and returns nil (lines 995-1000)
VersionFailed(op, err) ==
  IF op = VersionBaseOp.name THEN err
  ELSE IF op = "VersionManager.DetectVersion" THEN "failed to get version: " \o err
  ELSE IF op = "InitializeVersionSupport"
  THEN "failed to detect version: failed to get version: " \o err
  ELSE "nil"

\* Version of base.go lines 1031-1036: the error of the call is returned;
\* otherwise the result is type-asserted to a string, which panics on any
\* other value, and the version goes to the caller of Version
VersionBaseReturned(t, err, res) ==
  IF err # "nil" THEN Set(t, Returned(t, VersionFailed(th[t].op, err), th[t].arg))
  ELSE IF res.kind # "string" THEN Panicked(t)
  ELSE IF th[t].op = VersionBaseOp.name THEN Set(t, Returned(t, "nil", th[t].arg))
  ELSE Set(t, [th[t] EXCEPT !.pc = "detected", !.val = [version |-> res.val]])

\* Version of base.go line 1028: the error of the first call is a protocol
\* error with code -32602
TriesAgain(err, resp) == err = "protocol" /\ resp.error = "-32602"

\* what the caller of CallWithError does with the (response, err) it got,
\* by operation, up to its return or to its next access to the session
AfterCall(t) ==
  LET kind == KindOf(th[t])
      arg  == th[t].arg
      err  == th[t].err
      res  == [kind |-> th[t].resp.result, val |-> Held(th[t].val)]
  IN
  CASE kind = "login" ->
         /\ IF LoginError(err, res) # "nil"
            THEN /\ th' = Set(t, Returned(t, LoginError(err, res), arg))
                 /\ Auth' = Auth
            ELSE /\ Auth' = res.val
                 /\ th' = Set(t, [th[t] EXCEPT !.pc = "detect", !.val = NoVal])
         /\ UNCHANGED <<id, vm, itemAdapter, hostAdapter>>
    [] kind = "loginx" ->
         /\ th' = Set(t, Returned(t, LoginError(err, res), arg))
         /\ Auth' = IF LoginError(err, res) # "nil" THEN Auth ELSE res.val
         /\ UNCHANGED <<id, vm, itemAdapter, hostAdapter>>
    [] kind = "loginbase" ->
         \* Login of base.go lines 987-992 and LoginWithoutVersionInit lines
         \* 1008-1014: the result is type-asserted to a string, which
         \* panics on any other value, null included; Login goes on to
         \* InitializeVersionSupport
         /\ Auth' = IF err = "nil" /\ res.kind = "string" THEN res.val ELSE Auth
         /\ th' = IF err # "nil" THEN Set(t, Returned(t, err, arg))
                  ELSE IF res.kind # "string" THEN Panicked(t)
                  ELSE IF th[t].op = "LoginWithoutVersionInit"
                  THEN Set(t, Returned(t, "nil", arg))
                  ELSE Set(t, [th[t] EXCEPT !.pc = "initversion", !.val = NoVal])
         /\ UNCHANGED <<id, vm, itemAdapter, hostAdapter>>
    [] kind = "logout" ->
         /\ Auth' = LogoutToken(err, Auth)
         /\ th' = Set(t, Returned(t, err, arg))
         /\ UNCHANGED <<id, vm, itemAdapter, hostAdapter>>
    [] kind = VersionPart001Op.kind ->
         \* Version of part_001, lines 246-251
         /\ th' = VersionReturned(t, err, res)
         /\ UNCHANGED <<Auth, id, vm, itemAdapter, hostAdapter>>
    [] kind = VersionBaseOp.kind ->
         \* Version of base.go: after the first call the token is put back
         \* (line 1025) and a -32602 error leads to the second call (lines
         \* 1028-1030); after the last call lines 1031-1036
         /\ Auth' = IF arg.calls = 1 THEN arg.auth ELSE Auth
         /\ th' = IF arg.calls = 1 /\ TriesAgain(err, th[t].resp)
                  THEN Set(t, [th[t] EXCEPT !.pc = "again", !.val = NoVal])
                  ELSE VersionBaseReturned(t, err, res)
         /\ UNCHANGED <<id, vm, itemAdapter, hostAdapter>>
    [] kind = "create" ->
         /\ th' = IF err # "nil" THEN Set(t, Returned(t, err, arg))
                  ELSE IF Created(th[t].op, res, arg.ids).panic THEN Panicked(t)
                  ELSE Set(t, Returned(t, Created(th[t].op, res, arg.ids).err,
                                       [arg EXCEPT !.ids = Created(th[t].op, res, arg.ids).ids]))
         /\ UNCHANGED <<Auth, id, vm, itemAdapter, hostAdapter>>
    [] kind \in {"get", "parse"} ->
         \* a get wrapper, or CallWithErrorParse lines 527-528: the result
         \* is decoded into the slice of the caller
         /\ th' = Set(t, IF err # "nil" THEN Returned(t, err, arg)
                         ELSE IF res.kind # "list" THEN Returned(t, "result", arg)
                         ELSE Returned(t, "nil", arg))
         /\ UNCHANGED <<Auth, id, vm, itemAdapter, hostAdapter>>
    [] kind = "getitems" ->
         \* ItemsGet lines 416-418: res is what CallWithErrorParse left in
         \* it (nil when CallWithError failed), and itemsHeadersUnmarshal
         \* runs on it whatever err is
         LET items == IF err # "nil" THEN << >> ELSE res.val
             out   == itemsHeadersUnmarshal(items)
         IN  /\ th' = IF out.panic THEN Panicked(t)
                      ELSE Set(t, Returned(t, IF err # "nil" THEN err
                                              ELSE IF res.kind # "list" THEN "result"
                                              ELSE "nil",
                                           [arg EXCEPT !.ret = out.items]))
             /\ UNCHANGED <<Auth, id, vm, itemAdapter, hostAdapter>>
    [] kind = "getbyid" ->
         /\ th' = Set(t, IF err # "nil" THEN Returned(t, err, [arg EXCEPT !.geterr = err])
                         ELSE IF res.kind # "list"
                         THEN Returned(t, "result", [arg EXCEPT !.geterr = "result"])
                         ELSE Returned(t, OneResult(res.val).err,
                                       [arg EXCEPT !.got = res.val, !.ret = OneResult(res.val).ret]))
         /\ UNCHANGED <<Auth, id, vm, itemAdapter, hostAdapter>>
    [] kind = "delete" ->
         /\ th' = Set(t, IF err # "nil" THEN Returned(t, err, arg)
                         ELSE Returned(t, "nil", [arg EXCEPT !.ids =
                                [i \in 1..Len(arg.ids) |-> ""]]))
         /\ UNCHANGED <<Auth, id, vm, itemAdapter, hostAdapter>>
    [] OTHER ->
         /\ th' = Set(t, Returned(t, err, arg))
         /\ UNCHANGED <<Auth, id, vm, itemAdapter, hostAdapter>>

\* the wrapper goes on from the return of CallWithError (of Call or
\* CallWithErrorParse in base.go); the lock is free
Return(t) ==
  /\ th[t].pc = "ret"
  /\ AfterCall(t)
  /\ UNCHANGED <<ex, config, netCalls>>

CallReturnsUnlockOnSuccess(t, err, res) ==
  /\ ex' = IF ex = t /\ err = "nil" THEN 0 ELSE ex
  /\ th' = Set(t, [th[t] EXCEPT !.pc = "ret", !.err = err, !.resp = Received(res),
                                !.val = Hold(th[t].op, res)])
  /\ UNCHANGED <<Auth, id, vm, itemAdapter, hostAdapter>>

\* CallWithError returns (response, err) to the wrapper that called it: the
\* deferred Unlock runs, and the wrapper holds what it got
CallReturns(t, err, res) ==
  /\ ex' = IF ex = t THEN 0 ELSE ex
  /\ th' = Set(t, [th[t] EXCEPT !.pc = "ret", !.err = err, !.resp = Received(res),
                                !.val = Hold(th[t].op, res)])
  /\ UNCHANGED <<Auth, id, vm, itemAdapter, hostAdapter>>

\* CallWithError lines 467-470: api.ex.Lock() in serialize mode
Lock(t) ==
  /\ th[t].pc = "lock"
  /\ ex = 0
  /\ ex' = t
  /\ th' = Set(t, [th[t] EXCEPT !.pc = "send"])
  /\ UNCHANGED <<Auth, id, config, vm, itemAdapter, hostAdapter, netCalls>>

\* CallWithError lines 472-495: marshal, build the HTTP request, api.c.Do
Send(t) ==
  /\ th[t].pc = "send"
  /\ UNCHANGED config
  /\ IF th[t].arg.bad
     THEN CallReturns(t, "marshal", NoResp) /\ UNCHANGED netCalls
     ELSE IF ~config.urlOK
     THEN CallReturns(t, "newreq", NoResp) /\ UNCHANGED netCalls
     ELSE /\ netCalls' = netCalls + 1
          /\ \/ CallReturns(t, "transport", NoResp)
             \/ /\ th' = Set(t, [th[t] EXCEPT !.pc = "recv"])
                /\ UNCHANGED <<Auth, id, ex, vm, itemAdapter, hostAdapter>>

ErrorOfResultWins(resp) ==
  IF resp.body = "unreadable" THEN "read"
  ELSE IF resp.body = "undecodable" THEN "decode"
  ELSE IF resp.error # "none" /\ resp.kind = "none" THEN "protocol"
  ELSE "nil"

\* CallWithError lines 501-517: the error of ioutil.ReadAll, else that of
\* json.Unmarshal, else the error member of the envelope when it has one
ErrorOf(resp) ==
  IF resp.body = "unreadable" THEN "read"
  ELSE IF resp.body = "undecodable" THEN "decode"
  ELSE IF resp.error # "none" THEN "protocol"
  ELSE "nil"

\* CallWithError lines 496-517: read the body, decode the envelope, turn an
\* error member into the returned error, and return
Recv(t) ==
  /\ th[t].pc = "recv"
  /\ UNCHANGED <<config, netCalls>>
  /\ \/ \E resp \in Unusable : CallReturns(t, ErrorOf(resp), resp)
     \/ \E resp \in Successes(OpKind(th[t].op), th[t].arg) : CallReturns(t, ErrorOf(resp), resp)
     \/ \E resp \in BareErrors : CallReturns(t, ErrorOf(resp), resp)
     \/ \E resp \in ErrorsWithResult(OpKind(th[t].op), th[t].arg) :
           CallReturns(t, ErrorOf(resp), resp)

\* Login line 207, LoginWithToken line 237: the unsynchronised read of
\* versionManager.serverVersion; with a version stored the login returns
CheckVersion(t) ==
  /\ th[t].pc = "detect"
  /\ th' = Set(t, IF NeedsDetect(vm) THEN [th[t] EXCEPT !.pc = "version"]
                  ELSE Returned(t, "nil", th[t].arg))
  /\ UNCHANGED <<Auth, id, ex, config, vm, itemAdapter, hostAdapter, netCalls>>

\* Login line 208: DetectVersion, which starts with its Version call
CallVersion(t) ==
  /\ th[t].pc = "version"
  /\ BuildVersion(t, th[t].op, th[t].arg)
  /\ UNCHANGED <<Auth, ex, config, vm, itemAdapter, hostAdapter, netCalls>>

\* Version of part_004 has returned (version, err): Version itself returns
\* it (the copies of part_001 and base.go return through VersionReturned);
\* DetectVersion lines 326-334 returns the error (Login returns it too,
\* lines 208-214) or goes on to SetVersion with the version in hand
AfterVersion(t, err, version) ==
  th' = Set(t, IF err = "nil" /\ th[t].op # "Version"
               THEN [th[t] EXCEPT !.pc = "setversion", !.val = [version |-> version]]
               ELSE Returned(t, err, th[t].arg))

\* Version lines 282-300: marshal, build the HTTP request, api.c.Do
VSend(t) ==
  /\ th[t].pc = "vsend"
  /\ UNCHANGED <<Auth, id, ex, config, vm, itemAdapter, hostAdapter>>
  /\ IF ~config.urlOK
     THEN AfterVersion(t, "newreq", EmptyStr) /\ UNCHANGED netCalls
     ELSE /\ netCalls' = netCalls + 1
          /\ \/ AfterVersion(t, "transport", EmptyStr)
             \/ th' = Set(t, [th[t] EXCEPT !.pc = "vrecv"])

\* Version of part_004, lines 301-320: read, decode the envelope, decode
\* the result
VRecv(t) ==
  /\ th[t].pc = "vrecv"
  /\ UNCHANGED <<Auth, id, ex, config, vm, itemAdapter, hostAdapter, netCalls>>
  /\ \/ \E err \in {"read", "decode", "protocol"} : AfterVersion(t, err, EmptyStr)
     \/ \E res \in VersionResults :
          IF res.kind = "string" THEN AfterVersion(t, "nil", res.val)
          ELSE AfterVersion(t, "result", EmptyStr)

----------------------------------------------------------------------------
(* A version change: SetVersion and initializeAdapters.  None of their     *)
(* reads and writes of the version manager, of the feature map and of the  *)
(* two adapter fields is synchronised, so each access is a step of its own *)
(* and the accesses of two goroutines changing the version interleave      *)

\* the positions of a goroutine inside a version change
VersionSteps ==
  {"setversion", "split", "major", "minor", "load6", "is6", "load7", "is7",
   "flag6", "flag7", "mapassign", "adapters", "itemadapter", "hostadapter"}

\* SetVersion line 561: vm.serverVersion = version
StoreVersion(t) ==
  /\ th[t].pc = "setversion"
  /\ vm' = [vm EXCEPT !.serverVersion = th[t].val.version]
  /\ th' = Set(t, [th[t] EXCEPT !.pc = "split", !.val = NoVal])
  /\ UNCHANGED <<Auth, id, ex, config, itemAdapter, hostAdapter, netCalls>>

\* parseVersion line 569: parts := strings.Split(vm.serverVersion, "."), on
\* the version string stored now
SplitVersion(t) ==
  /\ th[t].pc = "split"
  /\ th' = Set(t, [th[t] EXCEPT !.pc = "major", !.val = [parts |-> Split(vm.serverVersion)]])
  /\ UNCHANGED <<Auth, id, ex, config, vm, itemAdapter, hostAdapter, netCalls>>

\* parseVersion lines 570-573: vm.majorVersion = major, when there is one
WriteMajorVersion(t) ==
  /\ th[t].pc = "major"
  /\ vm' = [vm EXCEPT !.majorVersion = ParsedMajor(th[t].val.parts, vm.majorVersion)]
  /\ th' = Set(t, [th[t] EXCEPT !.pc = "minor"])
  /\ UNCHANGED <<Auth, id, ex, config, itemAdapter, hostAdapter, netCalls>>

\* parseVersion lines 574-576: vm.minorVersion = minor, when there is one
WriteMinorVersion(t) ==
  /\ th[t].pc = "minor"
  /\ vm' = [vm EXCEPT !.minorVersion = ParsedMinor(th[t].val.parts, vm.minorVersion)]
  /\ th' = Set(t, [th[t] EXCEPT !.pc = "load6", !.val = NoVal])
  /\ UNCHANGED <<Auth, id, ex, config, itemAdapter, hostAdapter, netCalls>>

\* parseVersion lines 579 and 580, right-hand sides: vm.majorVersion is read
LoadMajorVersion(t) ==
  /\ th[t].pc \in {"load6", "load7"}
  /\ th' = Set(t, [th[t] EXCEPT !.pc = IF th[t].pc = "load6" THEN "is6" ELSE "is7",
                                !.val = [major |-> vm.majorVersion]])
  /\ UNCHANGED <<Auth, id, ex, config, vm, itemAdapter, hostAdapter, netCalls>>

\* parseVersion line 579: vm.isZabbix6 is written
WriteIsZabbix6(t) ==
  /\ th[t].pc = "is6"
  /\ vm' = [vm EXCEPT !.isZabbix6 = MajorIs6(th[t].val.major)]
  /\ th' = Set(t, [th[t] EXCEPT !.pc = "load7", !.val = NoVal])
  /\ UNCHANGED <<Auth, id, ex, config, itemAdapter, hostAdapter, netCalls>>

\* the position at which the right-hand side of assignment k of
\* initializeFeatureSupport starts: isZabbix6 || isZabbix7, or isZabbix7
FirstFlag(k) == IF FeatureOrder[k] \in Features6 THEN "flag6" ELSE "flag7"

\* parseVersion line 580: vm.isZabbix7 is written; SetVersion line 563 calls
\* initializeFeatureSupport
WriteIsZabbix7(t) ==
  /\ th[t].pc = "is7"
  /\ vm' = [vm EXCEPT !.isZabbix7 = MajorIs7(th[t].val.major)]
  /\ th' = Set(t, [th[t] EXCEPT !.pc = FirstFlag(1), !.val = [k |-> 1]])
  /\ UNCHANGED <<Auth, id, ex, config, itemAdapter, hostAdapter, netCalls>>

\* initializeFeatureSupport lines 586-590, right-hand sides: vm.isZabbix6 is
\* read, and || goes on to vm.isZabbix7 only when it is false
LoadIsZabbix6(t) ==
  /\ th[t].pc = "flag6"
  /\ th' = Set(t, IF vm.isZabbix6
                  THEN [th[t] EXCEPT !.pc = "mapassign",
                                     !.val = [k |-> th[t].val.k, supported |-> TRUE]]
                  ELSE [th[t] EXCEPT !.pc = "flag7"])
  /\ UNCHANGED <<Auth, id, ex, config, vm, itemAdapter, hostAdapter, netCalls>>

\* initializeFeatureSupport lines 586-590 and 593-598, right-hand sides:
\* vm.isZabbix7 is read
LoadIsZabbix7(t) ==
  /\ th[t].pc = "flag7"
  /\ th' = Set(t, [th[t] EXCEPT !.pc = "mapassign",
                                !.val = [k |-> th[t].val.k, supported |-> vm.isZabbix7]])
  /\ UNCHANGED <<Auth, id, ex, config, vm, itemAdapter, hostAdapter, netCalls>>

\* another goroutine is at a write of the supportedFeatures map
ConcurrentMapWrites(t) == \E u \in Threads \ {t} : th[u].pc = "mapassign"

\* initializeFeatureSupport lines 586-590 and 593-598: one entry of the map
\* is assigned.  A write to the map while another goroutine is writing it
\* is a data race: the runtime may throw "fatal error: concurrent map
\* writes", or the write goes through.  After the last assignment
\* DetectVersion line 337 and ForceVersion line 402 call initializeAdapters
MapAssign(t) ==
  /\ th[t].pc = "mapassign"
  /\ \/ /\ vm' = MapAssigned(vm, FeatureOrder[th[t].val.k], th[t].val.supported)
        /\ th' = Set(t, IF th[t].val.k < Len(FeatureOrder)
                        THEN [th[t] EXCEPT !.pc = FirstFlag(th[t].val.k + 1),
                                           !.val = [k |-> th[t].val.k + 1]]
                        ELSE [th[t] EXCEPT !.pc = "adapters", !.val = NoVal])
     \/ /\ ConcurrentMapWrites(t)
        /\ vm' = vm
        /\ th' = Panicked(t)
  /\ UNCHANGED <<Auth, id, ex, config, itemAdapter, hostAdapter, netCalls>>

\* initializeAdapters line 347: the branch is taken on the isZabbix7 flag as
\* it is now
InitializeAdapters(t) ==
  /\ th[t].pc = "adapters"
  /\ th' = Set(t, [th[t] EXCEPT !.pc = "itemadapter", !.val = [pair |-> initializeAdapters(vm)]])
  /\ UNCHANGED <<Auth, id, ex, config, vm, itemAdapter, hostAdapter, netCalls>>

\* initializeAdapters lines 348 and 351: the item adapter of the branch
\* taken is assigned
WriteItemAdapter(t) ==
  /\ th[t].pc = "itemadapter"
  /\ itemAdapter' = th[t].val.pair.item
  /\ th' = Set(t, [th[t] EXCEPT !.pc = "hostadapter"])
  /\ UNCHANGED <<Auth, id, ex, config, vm, hostAdapter, netCalls>>

\* initializeAdapters lines 349 and 352: the host adapter of the branch
\* taken is assigned; DetectVersion and ForceVersion return, and so does the
\* Login that called DetectVersion
WriteHostAdapter(t) ==
  /\ th[t].pc = "hostadapter"
  /\ hostAdapter' = th[t].val.pair.host
  /\ th' = Set(t, Returned(t, "nil", th[t].arg))
  /\ UNCHANGED <<Auth, id, ex, config, vm, itemAdapter, netCalls>>

\* the steps of a version change
VersionChange(t) ==
  \/ StoreVersion(t)
  \/ SplitVersion(t)
  \/ WriteMajorVersion(t)
  \/ WriteMinorVersion(t)
  \/ LoadMajorVersion(t)
  \/ WriteIsZabbix6(t)
  \/ WriteIsZabbix7(t)
  \/ LoadIsZabbix6(t)
  \/ LoadIsZabbix7(t)
  \/ MapAssign(t)
  \/ InitializeAdapters(t)
  \/ WriteItemAdapter(t)
  \/ WriteHostAdapter(t)

----------------------------------------------------------------------------
(* The older package, src/base.go: its version manager, the transport      *)
(* callBytes under Call, CallWithError and CallWithErrorParse, Login,      *)
(* LoginWithoutVersionInit, Version, VersionManager.DetectVersion,         *)
(* InitializeVersionSupport and ForceVersion.  Login, Version and the      *)
(* version changes are for one caller at a time (their comments say so);   *)
(* the calls take the lock                                                 *)

\* the features of base.go, lines 28-37, all of them "for Zabbix 7.0"
FeaturesBase70 ==
  {"history.push", "mfa", "proxygroup", "browser_item", "headers_v7", "proxyid",
   "monitored_by"}

\* the features initializeFeatureSupport enters as unsupported for 6.0
FeaturesBase60 == {"headers_v7", "proxyid", "monitored_by"}

\* NewVersionManager of base.go: zero values and an empty feature map
NewVersionManagerBase ==
  [serverVersion |-> EmptyStr, majorVersion |-> 0, minorVersion |-> 0,
   is70 |-> FALSE, is60 |-> FALSE, supportedFeatures |-> [f \in {} |-> FALSE]]

\* NewAPI of base.go: no token, id 0, a fresh version manager, no adapters
InitBase ==
  /\ Auth = ""
  /\ id = 0
  /\ ex = 0
  /\ config \in [Serialize : BOOLEAN, urlOK : BOOLEAN]
  /\ vm = NewVersionManagerBase
  /\ itemAdapter = "nil"
  /\ hostAdapter = "nil"
  /\ th = [t \in Threads |-> Idle]
  /\ netCalls = 0

\* VersionManager.DetectVersion lines 69-88 and ForceVersion lines 578-597:
\* the version string is stored, then split; with two tokens or more the
\* major and the minor token are parsed, and a token that is no integer
\* returns an error there and then, with what was written before it
ParsedBase(m, version) ==
  LET parts  == Split(version)
      major  == Atoi(parts[1])
      minor  == Atoi(parts[2])
      stored == [m EXCEPT !.serverVersion = version]
  IN  IF Len(parts) < 2 THEN [vm |-> stored, err |-> "nil"]
      ELSE IF ~major.ok THEN [vm |-> stored, err |-> "invalid major version"]
      ELSE IF ~minor.ok
      THEN [vm |-> [stored EXCEPT !.majorVersion = major.val], err |-> "invalid minor version"]
      ELSE [vm |-> [stored EXCEPT !.majorVersion = major.val, !.minorVersion = minor.val,
                                  !.is70 = (major.val = 7), !.is60 = (major.val = 6)],
            err |-> "nil"]

\* VersionManager.initializeFeatureSupport of base.go: every key is deleted,
\* then the keys of the version are entered
initializeFeatureSupportBase(m) ==
  [m EXCEPT !.supportedFeatures =
     IF m.is70 THEN [f \in FeaturesBase70 |-> TRUE]
     ELSE IF m.is60 THEN [f \in FeaturesBase60 |-> FALSE]
     ELSE [f \in {} |-> FALSE]]

\* IsCompatibleVersion: the version starts with "6." or with "7."
IsCompatibleVersion(version) ==
  Len(version) >= 2 /\ version[1] \in {"6", "7"} /\ version[2] = "."

\* VersionManager.DetectVersion lines 69-93, with the version that Version
\* returned: the version manager it leaves and the error it returns
DetectedBase(m, version) ==
  LET p == ParsedBase(m, version)
  IN  IF p.err # "nil" THEN p
      ELSE [vm |-> initializeFeatureSupportBase(p.vm), err |-> "nil"]

\* InitializeVersionSupport lines 545-572, once DetectVersion has returned
\* d: the adapters it leaves and the error it returns
InitializedBase(d, item, host) ==
  IF d.err # "nil"
  THEN [item |-> item, host |-> host, err |-> "failed to detect version: " \o d.err]
  ELSE IF ~IsCompatibleVersion(d.vm.serverVersion)
  THEN [item |-> item, host |-> host, err |-> "unsupported Zabbix version"]
  ELSE IF d.vm.is70
  THEN [item |-> "Zabbix7ItemAdapter", host |-> "Zabbix7HostAdapter", err |-> "nil"]
  ELSE [item |-> "Zabbix6ItemAdapter", host |-> "Zabbix6HostAdapter", err |-> "nil"]

\* ForceVersion of base.go, lines 577-612: the version manager and the
\* adapters it leaves and the error it returns
ForcedBase(m, version, item, host) ==
  LET p == ParsedBase(m, version)
      f == initializeFeatureSupportBase(p.vm)
  IN  IF p.err # "nil" THEN [vm |-> p.vm, item |-> item, host |-> host, err |-> p.err]
      ELSE IF f.is70
      THEN [vm |-> f, item |-> "Zabbix7ItemAdapter", host |-> "Zabbix7HostAdapter",
            err |-> "nil"]
      ELSE [vm |-> f, item |-> "Zabbix6ItemAdapter", host |-> "Zabbix6HostAdapter",
            err |-> "nil"]

\* callBytes line 910, entered by operation op:
\* id := atomic.AddInt32(&api.id, 1)
callBytes(t, op, method, arg) ==
  /\ InBudget(id)
  /\ id' = AddInt32(id, 1)
  /\ th' = Set(t, [pc |-> "request", op |-> op, req |-> CallRequest(method, NoReq.auth, id'),
                   arg |-> arg, err |-> "nil", resp |-> Received(NoResp), val |-> NoVal])
  /\ UNCHANGED <<Auth, ex, config, vm, itemAdapter, hostAdapter, netCalls>>

\* callBytes lines 911-929: the request literal reads api.Auth; json.Marshal
\* and http.NewRequest follow, and an error of either returns at once, the
\* mutex untouched; otherwise, in serialize mode, the call waits for the lock
MarshalRequest(t) ==
  /\ th[t].pc = "request"
  /\ th' = Set(t, IF th[t].arg.bad
                  THEN [th[t] EXCEPT !.pc = "ret", !.req.auth = Auth, !.err = "marshal"]
                  ELSE IF ~config.urlOK
                  THEN [th[t] EXCEPT !.pc = "ret", !.req.auth = Auth, !.err = "newreq"]
                  ELSE [th[t] EXCEPT !.pc = IF config.Serialize THEN "block" ELSE "do",
                                     !.req.auth = Auth])
  /\ UNCHANGED <<Auth, id, ex, config, vm, itemAdapter, hostAdapter, netCalls>>

\* callBytes lines 926-929: api.ex.Lock() in serialize mode
LockBase(t) ==
  /\ th[t].pc = "block"
  /\ ex = 0
  /\ ex' = t
  /\ th' = Set(t, [th[t] EXCEPT !.pc = "do"])
  /\ UNCHANGED <<Auth, id, config, vm, itemAdapter, hostAdapter, netCalls>>

\* callBytes returns (b, err): the deferred Unlock runs; the body it read is
\* in the hands of its caller, not decoded yet
callBytesReturns(t, err, res) ==
  /\ ex' = IF ex = t THEN 0 ELSE ex
  /\ th' = Set(t, [th[t] EXCEPT !.pc = IF err = "nil" THEN "unmarshal" ELSE "ret",
                                !.err = err, !.resp = Received(res),
                                !.val = HoldBase(th[t], res)])

\* callBytes lines 931-935: api.c.Do(req)
Do(t) ==
  /\ th[t].pc = "do"
  /\ netCalls' = netCalls + 1
  /\ \/ callBytesReturns(t, "transport", NoResp)
     \/ /\ th' = Set(t, [th[t] EXCEPT !.pc = "readall"])
        /\ ex' = ex
  /\ UNCHANGED <<Auth, id, config, vm, itemAdapter, hostAdapter>>

\* the error of ioutil.ReadAll
ReadError(resp) == IF resp.body = "unreadable" THEN "read" ELSE "nil"

\* callBytes lines 938-940: ioutil.ReadAll, and the return
ReadAll(t) ==
  /\ th[t].pc = "readall"
  /\ UNCHANGED <<Auth, id, config, vm, itemAdapter, hostAdapter, netCalls>>
  /\ \/ \E resp \in Unusable : callBytesReturns(t, ReadError(resp), resp)
     \/ \E resp \in Successes(KindOf(th[t]), th[t].arg) :
           callBytesReturns(t, ReadError(resp), resp)
     \/ \E resp \in BareErrors : callBytesReturns(t, ReadError(resp), resp)
     \/ \E resp \in ErrorsWithResult(KindOf(th[t]), th[t].arg) :
           callBytesReturns(t, ReadError(resp), resp)

\* Call of base.go returns the error of json.Unmarshal only: the error
\* member of the envelope is left to its caller
ErrorOfCall(resp) == IF resp.body = "undecodable" THEN "decode" ELSE "nil"

\* Call lines 947-949 with CallWithError lines 956-958, and CallWithErrorParse
\* lines 971-977: the envelope is decoded, and CallWithError and
\* CallWithErrorParse turn its error member into the returned error
Unmarshal(t) ==
  /\ th[t].pc = "unmarshal"
  /\ th' = Set(t, [th[t] EXCEPT !.pc = "ret",
                                !.err = IF th[t].op = "Call(base.go)"
                                        THEN ErrorOfCall(th[t].resp)
                                        ELSE ErrorOf(th[t].resp)])
  /\ UNCHANGED <<Auth, id, ex, config, vm, itemAdapter, hostAdapter, netCalls>>

\* a call of operation op on an ungated method through callBytes; params
\* that json.Marshal rejects are the input bad = TRUE
CallBytesOf(t, op) ==
  /\ th[t].pc = "idle"
  /\ \E bad \in BOOLEAN : callBytes(t, op, "host.get", [NoArg EXCEPT !.bad = bad])

\* Call of base.go, lines 945-951
CallBase(t) == CallBytesOf(t, "Call(base.go)")

\* CallWithError of base.go, lines 954-960
CallWithErrorBase(t) == CallBytesOf(t, "CallWithError(base.go)")

\* CallWithErrorParse of base.go, lines 964-980
CallWithErrorParseBase(t) == CallBytesOf(t, "CallWithErrorParse(base.go)")

\* Login of base.go, lines 984-986: user.login; on success it goes on to
\* InitializeVersionSupport, whose Version makes up to two calls
LoginBase(t) ==
  /\ th[t].pc = "idle"
  /\ id >= 0 /\ id + 3 <= MaxCalls
  /\ callBytes(t, "Login(base.go)", "user.login", NoArg)

\* LoginWithoutVersionInit, lines 1005-1007: user.login and nothing else
LoginWithoutVersionInit(t) ==
  /\ th[t].pc = "idle"
  /\ callBytes(t, "LoginWithoutVersionInit", "user.login", NoArg)

\* Version of base.go, line 1022, entered by operation op: auth := api.Auth
EnterVersion(t, op) ==
  /\ th[t].pc = "idle"
  /\ id >= 0 /\ id + 2 <= MaxCalls
  /\ th' = Set(t, [Idle EXCEPT !.pc = "clearauth", !.op = op,
                                !.arg = VersionBaseArg(Auth, 0)])
  /\ UNCHANGED <<Auth, id, ex, config, vm, itemAdapter, hostAdapter, netCalls>>

\* Version of base.go, called by a caller
VersionBase(t) == EnterVersion(t, VersionBaseOp.name)

\* VersionManager.DetectVersion of base.go, line 64, called by a caller on
\* the version manager of the API: version, err := api.Version()
DetectVersionBase(t) == EnterVersion(t, "VersionManager.DetectVersion")

\* InitializeVersionSupport line 545, called by a caller or by Login (line
\* 995, whatever the version manager holds): DetectVersion and its Version
InitializeVersionSupport(t) ==
  \/ EnterVersion(t, "InitializeVersionSupport")
  \/ /\ th[t].pc = "initversion"
     /\ th' = Set(t, [th[t] EXCEPT !.pc = "clearauth", !.arg = VersionBaseArg(Auth, 0)])
     /\ UNCHANGED <<Auth, id, ex, config, vm, itemAdapter, hostAdapter, netCalls>>

\* Version of base.go, line 1023: api.Auth = ""
ClearAuth(t) ==
  /\ th[t].pc = "clearauth"
  /\ Auth' = ""
  /\ th' = Set(t, [th[t] EXCEPT !.pc = "first"])
  /\ UNCHANGED <<id, ex, config, vm, itemAdapter, hostAdapter, netCalls>>

\* Version of base.go, line 1024: the first CallWithError
FirstVersionCall(t) ==
  /\ th[t].pc = "first"
  /\ callBytes(t, th[t].op, VersionBaseOp.method, VersionBaseArg(th[t].arg.auth, 1))

\* Version of base.go, line 1029: the second CallWithError, with the token
\* back in api.Auth
SecondVersionCall(t) ==
  /\ th[t].pc = "again"
  /\ callBytes(t, th[t].op, VersionBaseOp.method, VersionBaseArg(th[t].arg.auth, 2))

\* VersionManager.DetectVersion lines 69-93 with the version in hand; under
\* InitializeVersionSupport lines 545-572 follow, and Login (lines 995-1000)
\* prints the error of InitializeVersionSupport and returns nil
Detected(t) ==
  /\ th[t].pc = "detected"
  /\ LET d == DetectedBase(vm, th[t].val.version)
         s == InitializedBase(d, itemAdapter, hostAdapter)
     IN  /\ vm' = d.vm
         /\ IF th[t].op = "VersionManager.DetectVersion"
            THEN /\ th' = Set(t, Returned(t, d.err, th[t].arg))
                 /\ UNCHANGED <<itemAdapter, hostAdapter>>
            ELSE /\ th' = Set(t, Returned(t, IF th[t].op = "InitializeVersionSupport"
                                             THEN s.err ELSE "nil", th[t].arg))
                 /\ itemAdapter' = s.item
                 /\ hostAdapter' = s.host
  /\ UNCHANGED <<Auth, id, ex, config, netCalls>>

\* ForceVersion of base.go, called with some version string
ForceVersionBase(t) ==
  /\ th[t].pc = "idle"
  /\ \E version \in VersionStrings :
       LET f == ForcedBase(vm, version, itemAdapter, hostAdapter)
       IN  /\ vm' = f.vm
           /\ itemAdapter' = f.item
           /\ hostAdapter' = f.host
           /\ th' = Set(t, [Idle EXCEPT !.op = "ForceVersion(base.go)", !.err = f.err])
  /\ UNCHANGED <<Auth, id, ex, config, netCalls>>

----------------------------------------------------------------------------
(* The operations a caller starts                                          *)

\* Login and LoginWithToken have the same body; only the params differ
LoginBody(t, op) ==
  /\ th[t].pc = "idle"
  /\ id + (IF NeedsDetect(vm) THEN 2 ELSE 1) <= MaxCalls
  /\ BuildCall(t, op, "user.login", NoArg)

Login(t) == LoginBody(t, "Login")

LoginWithToken(t) == LoginBody(t, "LoginWithToken")

\* LoginExtended, host_prototype.go lines 354-380: user.login, the token
\* stored, and no version detection
LoginExtended(t) ==
  /\ th[t].pc = "idle"
  /\ BuildCall(t, "LoginExtended", "user.login", NoArg)

LogoutForgetsVersion(t) ==
  /\ th[t].pc = "idle"
  /\ InBudget(id)
  /\ id' = AddInt32(id, 1)
  /\ th' = Set(t, [pc |-> "auth", op |-> "Logout",
                   req |-> CallRequest("user.logout", NoReq.auth, id'), arg |-> NoArg,
                   err |-> "nil", resp |-> Received(NoResp), val |-> NoVal])
  /\ vm' = NewVersionManager
  /\ itemAdapter' = "nil"
  /\ hostAdapter' = "nil"
  /\ UNCHANGED <<Auth, ex, config, netCalls>>

Logout(t) ==
  /\ th[t].pc = "idle"
  /\ BuildCall(t, "Logout", "user.logout", NoArg)

\* CallWithError, or Call (lines 532-540, which hands on the result of
\* CallWithError), on an ungated method; params that json.Marshal rejects
\* are the input bad = TRUE
Call(t) ==
  /\ th[t].pc = "idle"
  /\ \E bad \in BOOLEAN : BuildCall(t, "Call", "host.get", [NoArg EXCEPT !.bad = bad])

\* CallWithErrorParse, lines 521-529, on an ungated method: CallWithError,
\* then the result is decoded into the variable of the caller
CallWithErrorParse(t) ==
  /\ th[t].pc = "idle"
  /\ \E bad \in BOOLEAN :
       BuildCall(t, "CallWithErrorParse", "host.get", [NoArg EXCEPT !.bad = bad])

\* Version of part_004, lines 274-322: a request of its own, built and sent
\* without CallWithError
Version(t) ==
  /\ th[t].pc = "idle"
  /\ BuildVersion(t, "Version", NoArg)
  /\ UNCHANGED <<Auth, ex, config, vm, itemAdapter, hostAdapter, netCalls>>

\* Version of part_001, lines 244-252: CallWithError("apiinfo.version", nil)
VersionPart001(t) ==
  /\ th[t].pc = "idle"
  /\ BuildCall(t, VersionPart001Op.name, VersionPart001Op.method, NoArg)

DetectVersion(t) ==
  /\ th[t].pc = "idle"
  /\ BuildVersion(t, "DetectVersion", NoArg)
  /\ UNCHANGED <<Auth, ex, config, vm, itemAdapter, hostAdapter, netCalls>>

\* ForceVersion lines 397-404, called with some version string
ForceVersion(t) ==
  /\ th[t].pc = "idle"
  /\ \E version \in VersionStrings :
       th' = Set(t, [Idle EXCEPT !.op = "ForceVersion", !.pc = "setversion",
                                 !.val = [version |-> version]])
  /\ UNCHANGED <<Auth, id, ex, config, vm, itemAdapter, hostAdapter, netCalls>>

\* a caller invokes one of the gated wrappers with a payload of its own
Invoke(t) ==
  /\ th[t].pc = "idle"
  /\ id < MaxCalls
  /\ \E g \in GatedOps : \E arg \in CallerPayloads(g.kind) :
       th' = Set(t, [pc |-> "gate", op |-> g.name, req |-> NoReq, arg |-> arg, err |-> "nil", resp |-> Received(NoResp), val |-> NoVal])
  /\ UNCHANGED <<Auth, id, ex, config, vm, itemAdapter, hostAdapter, netCalls>>

\* a get wrapper asks for output = "extend" when the params name no output
DefaultOutput(kind, arg) ==
  IF kind = "get" /\ arg.output = "" THEN [arg EXCEPT !.output = "extend"] ELSE arg

GatedDefaultFirst(t, g) ==
  /\ th[t].pc = "gate"
  /\ th[t].op = g.name
  /\ IF ~IsFeatureSupported(vm, g.feature)
     THEN /\ th' = Set(t, Returned(t, "unsupported", DefaultOutput(g.kind, th[t].arg)))
          /\ UNCHANGED <<Auth, id, ex, config, vm, itemAdapter, hostAdapter, netCalls>>
     ELSE BuildCall(t, g.name, g.method, DefaultOutput(g.kind, th[t].arg))

\* the head of every gated wrapper: the feature check, then the call
Gated(t, g) ==
  /\ th[t].pc = "gate"
  /\ th[t].op = g.name
  /\ IF ~IsFeatureSupported(vm, g.feature)
     THEN /\ th' = Set(t, Returned(t, "unsupported", th[t].arg))
          /\ UNCHANGED <<Auth, id, ex, config, vm, itemAdapter, hostAdapter, netCalls>>
     ELSE BuildCall(t, g.name, g.method, DefaultOutput(g.kind, th[t].arg))

MFACreate(t) == Gated(t, MFACreateOp)

MFAGet(t) == Gated(t, MFAGetOp)

MFAUpdate(t) == Gated(t, MFAUpdateOp)

MFADelete(t) == Gated(t, MFADeleteOp)

UserResetTOTP(t) == Gated(t, UserResetTOTPOp)

ProxyGroupCreate(t) == Gated(t, ProxyGroupCreateOp)

ProxyGroupGet(t) == Gated(t, ProxyGroupGetOp)

ProxyGroupUpdate(t) == Gated(t, ProxyGroupUpdateOp)

ProxyGroupDelete(t) == Gated(t, ProxyGroupDeleteOp)

Proxy7Create(t) == Gated(t, Proxy7CreateOp)

Proxy7Get(t) == Gated(t, Proxy7GetOp)

Proxy7Update(t) == Gated(t, Proxy7UpdateOp)

\* a caller invokes HostsGet, UsersGet, AlertsGet or MediaTypesGet with
\* params of its own
InvokeGet(t) ==
  /\ th[t].pc = "idle"
  /\ id < MaxCalls
  /\ \E g \in GetOps : \E arg \in CallerOptions :
       th' = Set(t, [pc |-> "get", op |-> g.name, req |-> NoReq, arg |-> arg, err |-> "nil",
                     resp |-> Received(NoResp), val |-> NoVal])
  /\ UNCHANGED <<Auth, id, ex, config, vm, itemAdapter, hostAdapter, netCalls>>

OutputAlwaysDefault(g, arg) == [arg EXCEPT !.output = g.output, !.fields = g.fields]

\* HostsGet lines 104-106, UsersGet lines 222-227, AlertsGet lines 102-107,
\* MediaTypesGet lines 270-275:
\* the caller's output when there is one, else the wrapper's own
OutputOrDefault(g, arg) ==
  IF arg.output # "" THEN arg ELSE [arg EXCEPT !.output = g.output, !.fields = g.fields]

\* a get wrapper without feature check: the output, then CallWithErrorParse
Get(t, g) ==
  /\ th[t].pc = "get"
  /\ th[t].op = g.name
  /\ BuildCall(t, g.name, g.method, OutputOrDefault(g, th[t].arg))

HostsGet(t) == Get(t, HostsGetOp)

UsersGet(t) == Get(t, UsersGetOp)

AlertsGet(t) == Get(t, AlertsGetOp)

MediaTypesGet(t) == Get(t, MediaTypesGetOp)

----------------------------------------------------------------------------
(* Create and update through the adapters                                  *)

\* what callers put in the header fields of an item
CallerHeaderMaps ==
  {NoHeaders, [n \in {"Accept"} |-> "text/html"],
   [n \in HeaderNames |-> IF n = "Accept" THEN "text/html" ELSE "v2"]}

CallerHeaderLists ==
  {NoHeaders, <<HeaderField("Accept", "text/html")>>,
   <<HeaderField("Accept", "text/html"), HeaderField("Accept", "v2")>>,
   <<HeaderField("X-Custom", "v2"), HeaderField("Accept", "text/html")>>}

\* what callers put in the query fields of an item
CallerQueryMaps == {NoHeaders, [n \in {"X-Custom"} |-> "v2"]}

CallerQueryLists == {NoHeaders, <<HeaderField("X-Custom", "v2")>>}

CallerItems ==
  {Item(h6, h7, q6, q7) : h6 \in CallerHeaderMaps, h7 \in CallerHeaderLists,
                          q6 \in CallerQueryMaps, q7 \in CallerQueryLists}

CallerHosts ==
  {Host(old, new, by) : old \in {"", "10"}, new \in {"", "20"},
                        by \in {MonitoredByServer, MonitoredByProxy, MonitoredByProxyGroup}}

\* a slice of one resource, not yet created on the server
AdapterPayloads(family) ==
  {[ids |-> <<"">>, output |-> "", bad |-> FALSE, res |-> <<r>>] :
     r \in IF family = "item" THEN CallerItems ELSE CallerHosts}

\* the loop body the selected adapter runs on one element of the slice; with
\* no item adapter selected ItemsCreate and ItemsUpdate send the slice as is
Prepared(op, r) ==
  CASE op = "ItemsCreate" /\ itemAdapter = "Zabbix7ItemAdapter" -> Zabbix7CreateItem(r)
    [] op = "ItemsCreate" /\ itemAdapter = "Zabbix6ItemAdapter" -> Zabbix6CreateItem(r)
    [] op = "ItemsUpdate" /\ itemAdapter = "Zabbix7ItemAdapter" -> Zabbix7UpdateItem(r)
    [] op = "ItemsUpdate" /\ itemAdapter = "Zabbix6ItemAdapter" -> Zabbix6UpdateItem(r)
    [] op = "CreateHosts" /\ hostAdapter = "Zabbix7HostAdapter" -> Zabbix7CreateHost(r)
    [] op = "CreateHosts" /\ hostAdapter = "Zabbix6HostAdapter" -> Zabbix6CreateHost(r)
    [] op = "UpdateHosts" /\ hostAdapter = "Zabbix7HostAdapter" -> Zabbix7UpdateHost(r)
    [] op = "UpdateHosts" /\ hostAdapter = "Zabbix6HostAdapter" -> Zabbix6UpdateHost(r)
    [] op = APICreateItemsOp.name /\ itemAdapter = "Zabbix7ItemAdapter" -> Zabbix7CreateItemBase(r)
    [] op = APICreateItemsOp.name /\ itemAdapter = "Zabbix6ItemAdapter" -> Zabbix6CreateItemBase(r)
    [] op = APIUpdateItemsOp.name /\ itemAdapter = "Zabbix7ItemAdapter" -> Zabbix7UpdateItemBase(r)
    [] op = APIUpdateItemsOp.name /\ itemAdapter = "Zabbix6ItemAdapter" -> Zabbix6UpdateItemBase(r)
    [] op = APICreateHostsOp.name /\ hostAdapter = "Zabbix7HostAdapter" -> Zabbix7CreateHostBase(r)
    [] op = APICreateHostsOp.name /\ hostAdapter = "Zabbix6HostAdapter" -> Zabbix6CreateHostBase(r)
    [] op = APIUpdateHostsOp.name /\ hostAdapter = "Zabbix7HostAdapter" -> Zabbix7UpdateHostBase(r)
    [] op = APIUpdateHostsOp.name /\ hostAdapter = "Zabbix6HostAdapter" -> Zabbix6UpdateHostBase(r)
    [] OTHER -> {r}

\* for i := range slice: every element prepared in place
PreparedSlice(op, slice) ==
  {out \in [1..Len(slice) -> UNION {Prepared(op, slice[i]) : i \in 1..Len(slice)}] :
     \A i \in 1..Len(slice) : out[i] \in Prepared(op, slice[i])}

\* a caller invokes one of the four facade methods of base.go with a slice
\* of its own
InvokeFacade(t) ==
  /\ th[t].pc = "idle"
  /\ id < MaxCalls
  /\ \E a \in FacadeOps : \E arg \in AdapterPayloads(a.family) :
       th' = Set(t, [pc |-> "gate", op |-> a.name, req |-> NoReq, arg |-> arg, err |-> "nil", resp |-> Received(NoResp), val |-> NoVal])
  /\ UNCHANGED <<Auth, id, ex, config, vm, itemAdapter, hostAdapter, netCalls>>

\* a caller invokes ItemsCreate or ItemsUpdate, or CreateHosts or UpdateHosts
\* on the adapter GetHostAdapter returned, with a slice of its own
InvokeAdapter(t) ==
  /\ th[t].pc = "idle"
  /\ id < MaxCalls
  /\ \E a \in AdapterOps \ FacadeOps : \E arg \in AdapterPayloads(a.family) :
       /\ a.family = "host" => hostAdapter # "nil"
       /\ th' = Set(t, [pc |-> "gate", op |-> a.name, req |-> NoReq, arg |-> arg, err |-> "nil", resp |-> Received(NoResp), val |-> NoVal])
  /\ UNCHANGED <<Auth, id, ex, config, vm, itemAdapter, hostAdapter, netCalls>>

\* the adapter method: prepare the slice, then the create or update call
Adapted(t, a) ==
  /\ th[t].pc = "gate"
  /\ th[t].op = a.name
  /\ \E slice \in PreparedSlice(a.name, th[t].arg.res) :
       BuildCall(t, a.name, a.method, [th[t].arg EXCEPT !.res = slice])

\* a facade method of base.go, lines 698-751: without an adapter it returns
\* its "adapter not initialized" error, with one it calls the adapter
\* method, which prepares the slice and goes on to the plain wrapper and
\* its CallWithError
Facade(t, a) ==
  /\ th[t].pc = "gate"
  /\ th[t].op = a.name
  /\ IF (IF a.family = "item" THEN itemAdapter ELSE hostAdapter) = "nil"
     THEN /\ th' = Set(t, Returned(t, "uninitialized", th[t].arg))
          /\ UNCHANGED <<Auth, id, ex, config, vm, itemAdapter, hostAdapter, netCalls>>
     ELSE \E slice \in PreparedSlice(a.name, th[t].arg.res) :
            callBytes(t, a.name, a.method, [th[t].arg EXCEPT !.res = slice])

APICreateItems(t) == Facade(t, APICreateItemsOp)

APIUpdateItems(t) == Facade(t, APIUpdateItemsOp)

APICreateHosts(t) == Facade(t, APICreateHostsOp)

APIUpdateHosts(t) == Facade(t, APIUpdateHostsOp)

ItemsCreate(t) == Adapted(t, ItemsCreateOp)

ItemsUpdate(t) == Adapted(t, ItemsUpdateOp)

CreateHosts(t) == Adapted(t, CreateHostsOp)

UpdateHosts(t) == Adapted(t, UpdateHostsOp)

\* ItemsGet: the default output, item.get, then itemsHeadersUnmarshal
ItemsGet(t) ==
  /\ th[t].pc = "idle"
  /\ \E output \in {"", "name"} :
       BuildCall(t, "ItemsGet", "item.get", DefaultOutput("get", GetArg(output)))

\* a GetByID wrapper: the get of its family with the id as filter; a gated
\* get returns its unsupported-feature error without calling
GetByID(t, g) ==
  /\ th[t].pc = "idle"
  /\ id < MaxCalls
  /\ IF g.feature # "" /\ ~IsFeatureSupported(vm, g.feature)
     THEN /\ th' = Set(t, [pc |-> "idle", op |-> g.name, req |-> NoReq,
                           arg |-> [GetArg("extend") EXCEPT !.geterr = "unsupported"],
                           err |-> "unsupported", resp |-> Received(NoResp), val |-> NoVal])
          /\ UNCHANGED <<Auth, id, ex, config, vm, itemAdapter, hostAdapter, netCalls>>
     ELSE BuildCall(t, g.name, g.method, GetArg("extend"))

HostGetByID(t) == GetByID(t, HostGetByIDOp)

ItemGetByID(t) == GetByID(t, ItemGetByIDOp)

MFAGetByID(t) == GetByID(t, MFAGetByIDOp)

\* ItemsDeleteByIds, host.go lines 617-626, called by a caller (pc "idle") or
\* by DeleteItems (pc "facade"): with an item adapter it calls the adapter's
\* DeleteItems, without one it calls item.delete; a call that finds no room
\* for its frame ends the process with a stack overflow
ItemsDeleteByIds(t) ==
  /\ \/ /\ th[t].pc = "idle"
        /\ id < MaxCalls
     \/ /\ th[t].pc = "facade"
        /\ th[t].op = "ItemsDeleteByIds"
  /\ \E ids \in {<<"5">>, <<"5", "6">>} :
       LET arg == IF th[t].pc = "idle"
                  THEN [ids |-> ids, output |-> "", bad |-> FALSE, depth |-> 1]
                  ELSE [th[t].arg EXCEPT !.depth = @ + 1]
       IN /\ th[t].pc = "facade" => ids = th[t].arg.ids
          /\ IF arg.depth > MaxDepth
             THEN /\ th' = Panicked(t)
                  /\ UNCHANGED <<Auth, id, ex, config, vm, itemAdapter, hostAdapter, netCalls>>
             ELSE IF itemAdapter # "nil"
             THEN /\ th' = Set(t, [pc |-> "adapter", op |-> "ItemsDeleteByIds", req |-> NoReq,
                                   arg |-> arg, err |-> "nil", resp |-> Received(NoResp), val |-> NoVal])
                  /\ UNCHANGED <<Auth, id, ex, config, vm, itemAdapter, hostAdapter, netCalls>>
             ELSE BuildCall(t, "ItemsDeleteByIds", "item.delete", arg)

\* Zabbix6ItemAdapter.DeleteItems and Zabbix7ItemAdapter.DeleteItems, host.go
\* lines 699-701 and 778-780: return adapter.api.ItemsDeleteByIds(itemIds)
DeleteItems(t) ==
  /\ th[t].pc = "adapter"
  /\ th[t].op = "ItemsDeleteByIds"
  /\ th' = Set(t, [th[t] EXCEPT !.pc = "facade"])
  /\ UNCHANGED <<Auth, id, ex, config, vm, itemAdapter, hostAdapter, netCalls>>

----------------------------------------------------------------------------
(* Specifications                                                          *)

\* one caller using the API sequentially
Next ==
  \/ Login(Main)
  \/ LoginWithToken(Main)
  \/ LoginExtended(Main)
  \/ Logout(Main)
  \/ Call(Main)
  \/ CallWithErrorParse(Main)
  \/ Version(Main)
  \/ VersionPart001(Main)
  \/ DetectVersion(Main)
  \/ ForceVersion(Main)
  \/ Invoke(Main)
  \/ MFACreate(Main)
  \/ MFAGet(Main)
  \/ MFAUpdate(Main)
  \/ MFADelete(Main)
  \/ UserResetTOTP(Main)
  \/ ProxyGroupCreate(Main)
  \/ ProxyGroupGet(Main)
  \/ ProxyGroupUpdate(Main)
  \/ ProxyGroupDelete(Main)
  \/ Proxy7Create(Main)
  \/ Proxy7Get(Main)
  \/ Proxy7Update(Main)
  \/ InvokeGet(Main)
  \/ HostsGet(Main)
  \/ UsersGet(Main)
  \/ AlertsGet(Main)
  \/ MediaTypesGet(Main)
  \/ ReadAuth(Main)
  \/ AddId(Main)
  \/ Lock(Main)
  \/ Send(Main)
  \/ Recv(Main)
  \/ Return(Main)
  \/ CheckVersion(Main)
  \/ CallVersion(Main)
  \/ VSend(Main)
  \/ VRecv(Main)
  \/ VersionChange(Main)

Spec == Init /\ [][Next]_vars

\* several goroutines logging in and out, calling CallWithError and Version
\* and detecting the version on one API, for as long as the process lives
NextConc ==
  \E t \in Threads :
    \/ Login(t)
    \/ Logout(t)
    \/ Call(t)
    \/ Version(t)
    \/ ReadAuth(t)
    \/ AddId(t)
    \/ Lock(t)
    \/ Send(t)
    \/ Recv(t)
    \/ Return(t)
    \/ CheckVersion(t)
    \/ CallVersion(t)
    \/ VSend(t)
    \/ VRecv(t)
    \/ VersionChange(t)

SpecConc == Init /\ [][NextConc]_vars

\* a session that has been calling for a long time: its last request took
\* the id MaxInt32 - 1
InitLate ==
  /\ Auth = ""
  /\ id = MaxInt32 - 1
  /\ ex = 0
  /\ config \in [Serialize : BOOLEAN, urlOK : BOOLEAN]
  /\ vm = NewVersionManager
  /\ itemAdapter = "nil"
  /\ hostAdapter = "nil"
  /\ th = [t \in Threads |-> IF t = Main
                                THEN [Idle EXCEPT !.op = "Call",
                                                  !.req = CallRequest("host.get", "", MaxInt32 - 1)]
                                ELSE Idle]
  /\ netCalls = 0

\* one caller going on with CallWithError and Version on that session
NextLate ==
  \/ Call(Main)
  \/ Version(Main)
  \/ ReadAuth(Main)
  \/ AddId(Main)
  \/ Lock(Main)
  \/ Send(Main)
  \/ Recv(Main)
  \/ Return(Main)
  \/ VSend(Main)
  \/ VRecv(Main)

SpecLate == InitLate /\ [][NextLate]_vars

\* every call made so far on the session, by any thread, is one of ops: a
\* program is built from one copy of the package
OneCopy(ops) == \A u \in Threads : th[u].op \in ops \cup {Idle.op}

\* several threads calling CallWithError on one API, that of part_004 or
\* that of base.go
NextCalls ==
  \E t \in Threads :
    \/ OneCopy({"Call"}) /\ Call(t)
    \/ ReadAuth(t)
    \/ AddId(t)
    \/ Lock(t)
    \/ Send(t)
    \/ Recv(t)
    \/ OneCopy({"CallWithError(base.go)"}) /\ CallWithErrorBase(t)
    \/ MarshalRequest(t)
    \/ LockBase(t)
    \/ Do(t)
    \/ ReadAll(t)
    \/ Unmarshal(t)
    \/ Return(t)

\* the same, where every network exchange returns in the end (api.c.Do and
\* the read of the body do not block for ever), a goroutine that holds a
\* body goes on to decode it, and sync.Mutex hands the lock to a goroutine
\* that keeps waiting for it (its starvation mode)
SpecCalls ==
  /\ Init
  /\ [][NextCalls]_vars
  /\ \A t \in Threads : WF_vars(Send(t)) /\ WF_vars(Recv(t)) /\ SF_vars(Lock(t))
  /\ \A t \in Threads : WF_vars(Do(t)) /\ WF_vars(ReadAll(t)) /\ SF_vars(LockBase(t))
  /\ \A t \in Threads : WF_vars(MarshalRequest(t)) /\ WF_vars(Unmarshal(t))

\* several goroutines changing the version of one API, each of them once, by
\* DetectVersion or by ForceVersion
NextDetect ==
  \E t \in Threads :
    \/ th[t].op = Idle.op /\ DetectVersion(t)
    \/ th[t].op = Idle.op /\ ForceVersion(t)
    \/ VSend(t)
    \/ VRecv(t)
    \/ VersionChange(t)

SpecDetect == Init /\ [][NextDetect]_vars

\* one caller fixing the version, creating and updating items and hosts
\* through the adapters, and getting items and single resources
NextAdapt ==
  \/ ForceVersion(Main)
  \/ InvokeAdapter(Main)
  \/ ItemsCreate(Main)
  \/ ItemsUpdate(Main)
  \/ CreateHosts(Main)
  \/ UpdateHosts(Main)
  \/ ItemsGet(Main)
  \/ HostGetByID(Main)
  \/ ItemGetByID(Main)
  \/ MFAGetByID(Main)
  \/ ItemsDeleteByIds(Main)
  \/ DeleteItems(Main)
  \/ ReadAuth(Main)
  \/ AddId(Main)
  \/ Lock(Main)
  \/ Send(Main)
  \/ Recv(Main)
  \/ Return(Main)
  \/ VersionChange(Main)

SpecAdapt == Init /\ [][NextAdapt]_vars

\* one caller using the package of base.go: logging in, calling, asking
\* for the version, detecting and forcing it
NextBase ==
  \/ LoginBase(Main)
  \/ LoginWithoutVersionInit(Main)
  \/ CallBase(Main)
  \/ CallWithErrorBase(Main)
  \/ CallWithErrorParseBase(Main)
  \/ VersionBase(Main)
  \/ DetectVersionBase(Main)
  \/ InitializeVersionSupport(Main)
  \/ ForceVersionBase(Main)
  \/ ClearAuth(Main)
  \/ FirstVersionCall(Main)
  \/ SecondVersionCall(Main)
  \/ Detected(Main)
  \/ MarshalRequest(Main)
  \/ LockBase(Main)
  \/ Do(Main)
  \/ ReadAll(Main)
  \/ Unmarshal(Main)
  \/ Return(Main)

SpecBase == InitBase /\ [][NextBase]_vars

\* one caller of base.go forcing a version, then creating and updating
\* items and hosts through the facade
NextFacade ==
  \/ ForceVersionBase(Main)
  \/ InvokeFacade(Main)
  \/ APICreateItems(Main)
  \/ APIUpdateItems(Main)
  \/ APICreateHosts(Main)
  \/ APIUpdateHosts(Main)
  \/ MarshalRequest(Main)
  \/ LockBase(Main)
  \/ Do(Main)
  \/ ReadAll(Main)
  \/ Unmarshal(Main)
  \/ Return(Main)

SpecFacade == InitBase /\ [][NextFacade]_vars

\* a caller of the two conversion functions: the value it started from, the
\* value it holds now with its Go type, and the conversions applied so far
ConvArg(type, value) == [type |-> type, orig |-> value, cur |-> value, steps |-> << >>]

\* the caller starts from some header map or from some header list
InitConv ==
  /\ Auth = ""
  /\ id = 0
  /\ ex = 0
  /\ config \in [Serialize : BOOLEAN, urlOK : BOOLEAN]
  /\ vm = NewVersionManager
  /\ itemAdapter = "nil"
  /\ hostAdapter = "nil"
  /\ \E arg \in {ConvArg("HttpHeaders", m) : m \in HeaderMaps}
                 \cup {ConvArg("[]HeaderField", l) : l \in HeaderLists} :
       th = [t \in Threads |-> [Idle EXCEPT !.op = "Convert", !.arg = arg]]
  /\ netCalls = 0

\* the caller passes the map it holds to ConvertHeadersToV7
CallConvertHeadersToV7(t) ==
  /\ th[t].arg.type = "HttpHeaders"
  /\ Len(th[t].arg.steps) < MaxConversions
  /\ \E list \in ConvertHeadersToV7(th[t].arg.cur) :
       th' = Set(t, [th[t] EXCEPT !.arg.type = "[]HeaderField", !.arg.cur = list,
                                  !.arg.steps = Append(@, "ConvertHeadersToV7")])
  /\ UNCHANGED <<Auth, id, ex, config, vm, itemAdapter, hostAdapter, netCalls>>

\* the caller passes the list it holds to ConvertHeadersToV6
CallConvertHeadersToV6(t) ==
  /\ th[t].arg.type = "[]HeaderField"
  /\ Len(th[t].arg.steps) < MaxConversions
  /\ th' = Set(t, [th[t] EXCEPT !.arg.type = "HttpHeaders",
                                !.arg.cur = ConvertHeadersToV6(th[t].arg.cur),
                                !.arg.steps = Append(@, "ConvertHeadersToV6")])
  /\ UNCHANGED <<Auth, id, ex, config, vm, itemAdapter, hostAdapter, netCalls>>

NextConv ==
  \/ CallConvertHeadersToV7(Main)
  \/ CallConvertHeadersToV6(Main)

SpecConv == InitConv /\ [][NextConv]_vars


----------------------------------------------------------------------------
(* Properties                                                              *)

\* thread t is back from operation op
Back(t, op) == th[t].pc = "idle" /\ th[t].op = op

\* a version change has been made on this session and none is under way
VersionChanged ==
  /\ DOMAIN vm.supportedFeatures # {}
  /\ \A t \in Threads : th[t].pc \notin VersionSteps

\* C1 as stated: after Logout returns the stored token is empty, whatever
\* the outcome of the remote user.logout call.
C1_LogoutAlwaysClears ==
  \A t \in Threads : Back(t, "Logout") => Auth = ""

\* C2: a Login whose user.login succeeded, and no other, looks at the stored
\* version string; it goes on to a version-info call exactly when none is
\* stored at that moment; when one is stored it returns at once without
\* building a request and leaves the version manager and both adapters as
\* they were.
C2_LoginDetectsIffUnknown ==
  [][\A t \in Threads :
       /\ (th[t].op \in LoginOps /\ th[t].pc = "detect") =>
             /\ th'[t].pc = "version" => vm.serverVersion = EmptyStr
             /\ th'[t].pc = "idle" =>
                  /\ vm.serverVersion # EmptyStr
                  /\ th'[t].err = "nil"
                  /\ th'[t].req = th[t].req
                  /\ id' = id
                  /\ vm' = vm
                  /\ itemAdapter' = itemAdapter
                  /\ hostAdapter' = hostAdapter
                  /\ netCalls' = netCalls
       /\ (th[t].op \in LoginOps /\ th[t].pc # "version" /\ th'[t].pc = "version") =>
             th[t].pc = "detect" /\ th[t].err = "nil"]_vars

C2_Witness ==
  \E t \in Threads :
    /\ th[t].op \in LoginOps /\ th[t].pc = "idle" /\ th[t].err = "nil"
    /\ th[t].req.method = "user.login"
    /\ vm.serverVersion \in {V640, V700}
    /\ netCalls >= 3

\* C3 as stated: every user.login request handed to the transport carries
\* no auth token.
C3_LoginSentWithoutToken ==
  \A t \in Threads :
    (th[t].pc = "recv" /\ th[t].req.method = "user.login") => th[t].req.auth = ""

\* C4 as stated: a version-info request handed to the transport carries no
\* token, whichever Version built it, and a request of any method other
\* than user.login and version-info carries the token stored in the session.
C4_TokenAttachment ==
  \A t \in Threads :
    /\ (/\ th[t].pc \in {"send", "recv", "vsend", "vrecv", "do", "readall"}
        /\ th[t].req.method \in VersionMethods) =>
         th[t].req.auth = ""
    /\ (/\ th[t].pc \in {"lock", "send", "recv", "ret", "block", "do", "readall", "unmarshal"}
        /\ th[t].req.method \notin {"user.login"} \cup VersionMethods) =>
         th[t].req.auth = Auth

\* C5 as stated: the 6.x/7.x classification and every feature answer are
\* those of a fresh session given the same version string.
C5_TableIsFunctionOfVersion ==
  LET fresh == SetVersion(NewVersionManager, vm.serverVersion)
  IN  VersionChanged =>
        /\ IsZabbix6(vm) = IsZabbix6(fresh)
        /\ IsZabbix7(vm) = IsZabbix7(fresh)
        /\ \A f \in Features : IsFeatureSupported(vm, f) = IsFeatureSupported(fresh, f)

\* the version string has no major or minor token, or one that is no integer
Malformed(version) ==
  LET parts == Split(version)
  IN  \/ Len(parts) < 2
      \/ ~Atoi(parts[1]).ok
      \/ ~Atoi(parts[2]).ok

\* C6 as stated: after a change to a malformed version string major and
\* minor are zero, the session is neither 6.x nor 7.x and no feature is on.
C6_MalformedMeansZero ==
  (VersionChanged /\ Malformed(vm.serverVersion)) =>
     /\ vm.majorVersion = 0
     /\ vm.minorVersion = 0
     /\ ~IsZabbix6(vm)
     /\ ~IsZabbix7(vm)
     /\ \A f \in Features : ~IsFeatureSupported(vm, f)

\* C7 as stated: each 7.0+ feature is supported exactly when the major
\* version is at least 7.
C7_GateIsThreshold ==
  VersionChanged =>
    \A f \in Features7 : IsFeatureSupported(vm, f) <=> vm.majorVersion >= 7

\* C8: once a version has been set, both adapters are selected, and they are
\* the two Zabbix 7 strategies when the version manager classifies the
\* version as 7.x and the two Zabbix 6 strategies otherwise.
C8_AdaptersFollowVersion ==
  VersionChanged =>
    IF vm.isZabbix7
    THEN itemAdapter = "Zabbix7ItemAdapter" /\ hostAdapter = "Zabbix7HostAdapter"
    ELSE itemAdapter = "Zabbix6ItemAdapter" /\ hostAdapter = "Zabbix6HostAdapter"

C8_Witness ==
  \E t \in Threads :
    /\ Back(t, "DetectVersion") /\ th[t].err = "nil"
    /\ vm.serverVersion = V700
    /\ itemAdapter = "Zabbix7ItemAdapter" /\ hostAdapter = "Zabbix7HostAdapter"

\* C9: a gated wrapper entered while its feature is not enabled in the
\* feature table returns the unsupported-feature error in that step: the
\* id counter and the transport call count stay as they were and the
\* caller's payload is returned as it was passed.
C9_GateDeniedNoCall ==
  [][\A t \in Threads :
       (/\ th[t].pc = "gate"
        /\ LET f == GatedOp(th[t].op).feature
           IN  ~(f \in DOMAIN vm.supportedFeatures /\ vm.supportedFeatures[f])) =>
          /\ th'[t].pc = "idle"
          /\ th'[t].err = "unsupported"
          /\ th'[t].arg = th[t].arg
          /\ th'[t].req = NoReq
          /\ id' = id
          /\ netCalls' = netCalls]_vars

C9_Witness ==
  \E t \in Threads :
    /\ Back(t, "MFAGet") /\ th[t].err = "unsupported"
    /\ th[t].arg.output = ""
    /\ vm.serverVersion = V640
    /\ netCalls = 0

\* a request lifecycle of thread t is in progress: the envelope is being
\* built or is built, and the call has not returned
InLifecycle(t) == th[t].pc \in {"auth", "id", "lock", "send", "recv", "vsend", "vrecv"}

\* C10 as stated: in serialize mode at most one request lifecycle is in
\* progress at any time, version-info calls included.
C10_SerializeOneLifecycle ==
  config.Serialize => Cardinality({t \in Threads : InLifecycle(t)}) <= 1

\* C11: in every interleaving of the threads, with the lock or without it,
\* the id a thread takes for the request it is building is greater than the
\* id of every request any thread has built before it, so no two requests
\* share an id and the ids one thread sees grow strictly.
C11_FreshIds ==
  [][\A t \in Threads :
       (th'[t].req.id # th[t].req.id /\ th'[t].req.id # NoReq.id) =>
          \A u \in Threads : th'[t].req.id > th[u].req.id]_vars

C11_Witness ==
  \E t \in Threads : \E u \in Threads :
    /\ th[t].pc = "recv" /\ th[t].op = "Call"
    /\ th[u].pc = "vrecv" /\ th[u].op = "Version"
    /\ th[t].req.id > th[u].req.id
    /\ th[u].req.id >= 1


\* thread t is in the adapter method named by its operation, about to
\* prepare the caller's slice with the selected adapter
AtAdapter(t, names, adapter) ==
  th[t].pc = "gate" /\ th[t].op \in names /\ adapter \in {itemAdapter, hostAdapter}

\* list holds exactly the name/value pairs of map: one entry per key
ExactlyThePairs(list, map) ==
  /\ Len(list) = Cardinality(DOMAIN map)
  /\ \A i \in 1..Len(list) : list[i].name \in DOMAIN map /\ map[list[i].name] = list[i].value
  /\ \A n \in DOMAIN map : \E i \in 1..Len(list) : list[i].name = n

\* map holds every name/value pair of list
EveryPair(map, list) ==
  \A i \in 1..Len(list) : list[i].name \in DOMAIN map /\ map[list[i].name] = list[i].value

\* C12 as stated: a create or update request that an adapter has built
\* never holds both representations of a dual-shape field.
C12_OneRepresentationSent ==
  \A t \in Threads :
    (th[t].pc \in {"auth", "id", "lock", "send", "recv"} /\ th[t].op \in AdapterNames
     /\ hostAdapter # "nil") =>
       \A i \in 1..Len(th[t].arg.res) :
         LET r == th[t].arg.res[i]
         IN  IF AdapterOp(th[t].op).family = "item"
             THEN /\ ~(len(r.HeadersV6) > 0 /\ len(r.HeadersV7) > 0)
                  /\ ~(len(r.QueryFieldsV6) > 0 /\ len(r.QueryFieldsV7) > 0)
             ELSE ~(r.ProxyHostID # "" /\ r.ProxyID # "")

\* C13 as stated: with the Zabbix 7 item adapter selected, create and update
\* (ItemsCreate and ItemsUpdate of host.go, API.CreateItems and
\* API.UpdateItems of base.go) turn an item that has only the header map
\* into one whose header list holds exactly the pairs of the map, one entry
\* per key, and whose header map is empty; likewise for the query fields.
C13_OldMapBecomesList ==
  [][\A t \in Threads :
       AtAdapter(t, {"ItemsCreate", "ItemsUpdate", APICreateItemsOp.name, APIUpdateItemsOp.name},
                 "Zabbix7ItemAdapter") =>
         \A i \in 1..Len(th[t].arg.res) :
           LET in  == th[t].arg.res[i]
               out == th'[t].arg.res[i]
           IN  /\ (len(in.HeadersV6) > 0 /\ len(in.HeadersV7) = 0) =>
                    ExactlyThePairs(out.HeadersV7, in.HeadersV6) /\ out.HeadersV6 = NoHeaders
               /\ (len(in.QueryFieldsV6) > 0 /\ len(in.QueryFieldsV7) = 0) =>
                    ExactlyThePairs(out.QueryFieldsV7, in.QueryFieldsV6)
                    /\ out.QueryFieldsV6 = NoHeaders]_vars

\* C14 as stated: with the Zabbix 6 item adapter selected, ItemsCreate and
\* ItemsUpdate turn an item that has only the header list into one whose
\* header map holds every name/value pair of the list and whose header list
\* is empty; likewise for the query fields.
C14_NewListBecomesMap ==
  [][\A t \in Threads :
       AtAdapter(t, {"ItemsCreate", "ItemsUpdate"}, "Zabbix6ItemAdapter") =>
         \A i \in 1..Len(th[t].arg.res) :
           LET in  == th[t].arg.res[i]
               out == th'[t].arg.res[i]
           IN  /\ (len(in.HeadersV7) > 0 /\ len(in.HeadersV6) = 0) =>
                    EveryPair(out.HeadersV6, in.HeadersV7) /\ out.HeadersV7 = NoHeaders
               /\ (len(in.QueryFieldsV7) > 0 /\ len(in.QueryFieldsV6) = 0) =>
                    EveryPair(out.QueryFieldsV6, in.QueryFieldsV7)
                    /\ out.QueryFieldsV7 = NoHeaders]_vars

\* C15 as stated: with the Zabbix 7 host adapter selected, create and update
\* (CreateHosts and UpdateHosts of the adapter of host.go, API.CreateHosts
\* and API.UpdateHosts of base.go) send a host with ProxyID holding the
\* proxy reference (its own when it has one, otherwise that of
\* ProxyHostID); MonitoredBy becomes "proxy" when it was unset and the host
\* references a proxy, and is otherwise what the caller passed.
C15_MonitoredByDefault ==
  [][\A t \in Threads :
       AtAdapter(t, {"CreateHosts", "UpdateHosts", APICreateHostsOp.name, APIUpdateHostsOp.name},
                 "Zabbix7HostAdapter") =>
         \A i \in 1..Len(th[t].arg.res) :
           LET in  == th[t].arg.res[i]
               out == th'[t].arg.res[i]
               ref == in.ProxyHostID # "" \/ in.ProxyID # ""
           IN  /\ out.ProxyID = IF in.ProxyID # "" THEN in.ProxyID ELSE in.ProxyHostID
               /\ (ref /\ in.MonitoredBy = 0) => out.MonitoredBy = MonitoredByProxy
               /\ in.MonitoredBy # 0 => out.MonitoredBy = in.MonitoredBy
               /\ ~ref => out.MonitoredBy = in.MonitoredBy]_vars

\* map and list hold the same name/value data
SameData(map, list) ==
  /\ EveryPair(map, list)
  /\ \A n \in DOMAIN map : \E i \in 1..Len(list) : list[i].name = n

\* C16 as stated: every item that ItemsGet returns has the header map and
\* the header list populated with the same name/value data, whichever shape
\* the server sent.
C16_BothShapesOnReceive ==
  \A t \in Threads :
    (Back(t, "ItemsGet") /\ th[t].err = "nil") =>
       \A i \in 1..Len(th[t].arg.ret) :
         LET item == th[t].arg.ret[i]
         IN  /\ SameData(item.HeadersV6, item.HeadersV7)
             /\ item.RawHeaders.shape \in {"object", "array"} /\ len(item.RawHeaders.data) > 0 =>
                  len(item.HeadersV6) > 0 /\ len(item.HeadersV7) > 0

\* the raw member is absent, "[]", or decodes in one of the two shapes
Decodable(raw) ==
  raw.shape \in {"absent", "emptyarray"} \/ (raw.shape \in {"object", "array"} /\ raw.ok)

\* C17 as stated: an ItemsGet that received a dual-shape member of neither
\* shape, or one that does not decode in its shape, returns an error; it
\* does not panic and it does not return the items without error.
C17_BadShapeIsDecodeError ==
  \A t \in Threads :
    /\ th[t].op = "ItemsGet" => th[t].pc # "panic"
    /\ (Back(t, "ItemsGet") /\ th[t].err = "nil") =>
         \A i \in 1..Len(th[t].arg.ret) :
           Decodable(th[t].arg.ret[i].RawHeaders) /\ Decodable(th[t].arg.ret[i].RawQueryFields)

\* C20: a GetByID that is back returns the error of the get under it when
\* that get failed; otherwise the single match and no error when the get
\* matched exactly one resource, and no resource and the cardinality error
\* carrying the number of matches when it matched none or several.
C20_GetByIDExactlyOne ==
  \A t \in Threads :
    (th[t].pc = "idle" /\ th[t].op \in GetByIDNames) =>
       LET a == th[t].arg
       IN  IF a.geterr # "nil"
           THEN th[t].err = a.geterr /\ a.ret = "nil"
           ELSE IF Len(a.got) = 1
           THEN th[t].err = "nil" /\ a.ret = a.got[1]
           ELSE /\ a.ret = "nil"
                /\ Len(a.got) = 0 => th[t].err = "Expected exactly one result, got 0."
                /\ Len(a.got) = 2 => th[t].err = "Expected exactly one result, got 2."
                /\ Len(a.got) = 3 => th[t].err = "Expected exactly one result, got 3."

C20_Witness ==
  \E t \in Threads :
    /\ Back(t, "MFAGetByID")
    /\ th[t].arg.geterr = "nil"
    /\ th[t].arg.got = <<"101", "102">>
    /\ th[t].arg.ret = "nil"
    /\ th[t].err = "Expected exactly one result, got 2."


\* C18: a header map converted to the list format holds one entry per key
\* of the map with that key's value, and converting that list back gives
\* the map the caller started from; the empty map included.
C18_MapRoundTrip ==
  /\ th[Main].arg.steps = <<"ConvertHeadersToV7">> =>
       ExactlyThePairs(th[Main].arg.cur, th[Main].arg.orig)
  /\ th[Main].arg.steps = <<"ConvertHeadersToV7", "ConvertHeadersToV6">> =>
       th[Main].arg.cur = th[Main].arg.orig

C18_Witness ==
  /\ th[Main].arg.steps = <<"ConvertHeadersToV7", "ConvertHeadersToV6">>
  /\ DOMAIN th[Main].arg.orig = HeaderNames
  /\ th[Main].arg.cur = th[Main].arg.orig

\* C19 as stated: a header list converted to the map format and back is
\* the list the caller started from: same entries, order and multiplicity.
C19_ListRoundTrip ==
  th[Main].arg.steps = <<"ConvertHeadersToV6", "ConvertHeadersToV7">> =>
    th[Main].arg.cur = th[Main].arg.orig

\* C21 as stated: when a create wrapper returns without error, every
\* payload carries the non-empty id the server listed at its position,
\* whatever id the caller had put there; when it returns an error the id
\* fields are as they were when the request was sent.
C21_CreateAssignsIds ==
  [][\A t \in Threads :
       (OpKind(th[t].op) = "create" /\ th[t].pc = "ret" /\ th'[t].pc = "idle") =>
          IF th'[t].err = "nil"
          THEN /\ Len(th'[t].arg.ids) = Len(th[t].arg.ids)
               /\ \A i \in 1..Len(th[t].arg.ids) :
                    /\ th'[t].arg.ids[i] # ""
                    /\ i <= Len(Held(th[t].val))
                    /\ th'[t].arg.ids[i] = Held(th[t].val)[i]
          ELSE th'[t].arg.ids = th[t].arg.ids]_vars


\* C22: a call through CallWithError returns a protocol error exactly when a
\* response was received, decoded as an envelope, and has an error member,
\* whether or not a result stands beside it; a failure to send returns
\* without a response, and a body that cannot be read or decoded returns the
\* read or decode error, none of them a protocol error.
C22_ProtocolErrorIffErrorMember ==
  \A t \in Threads :
    (th[t].pc = "idle" /\ th[t].req.method \notin {NoReq.method, "apiinfo.version"}) =>
       /\ th[t].err = "protocol" <=>
            (th[t].resp.body = "json" /\ th[t].resp.error \in ServerErrors)
       /\ th[t].err \in {"marshal", "newreq", "transport"} => th[t].resp = Received(NoResp)
       /\ th[t].err = "read" <=> th[t].resp.body = "unreadable"
       /\ th[t].err = "decode" <=> th[t].resp.body = "undecodable"

C22_Witness ==
  \E t \in Threads :
    /\ Back(t, "Login") /\ th[t].err = "protocol"
    /\ th[t].resp = [body |-> "json", error |-> "-32602", result |-> "string"]
    /\ Auth = ""


\* C23 as stated: no retries.  A step puts at most one request on the wire, and only
\* from the sending position of CallWithError, of callBytes or of Version;
\* once a request has been sent the invocation never goes back to send, it
\* only waits for the response and returns, whatever the outcome, and what
\* its caller does with the outcome sends nothing; and an invocation
\* builds no second request (Login, which goes on to its one Version call
\* after a successful user.login, is two invocations, and so is Version
\* under a detection).
C23_NoRetry ==
  [][/\ netCalls' \in {netCalls, netCalls + 1}
     /\ netCalls' # netCalls =>
          \E t \in Threads : /\ th[t].pc \in {"send", "vsend", "do"}
                             /\ th'[t].pc \in {"recv", "ret", "vrecv", "idle", "readall"}
                             /\ th'[t].req = th[t].req
     /\ \A t \in Threads :
          /\ th[t].pc = "request" =>
               /\ th'[t].pc \in {"request", "block", "do", "ret"}
               /\ th'[t].req \in {th[t].req, [th[t].req EXCEPT !.auth = Auth]}
          /\ th[t].pc = "block" => th'[t].pc \in {"block", "do"} /\ th'[t].req = th[t].req
          /\ th[t].pc = "do" =>
               th'[t].pc \in {"do", "readall", "ret"} /\ th'[t].req = th[t].req
          /\ th[t].pc = "readall" =>
               th'[t].pc \in {"readall", "unmarshal", "ret"} /\ th'[t].req = th[t].req
          /\ th[t].pc = "unmarshal" =>
               th'[t].pc \in {"unmarshal", "ret"} /\ th'[t].req = th[t].req
          /\ th[t].pc \in {"initversion", "clearauth", "detected"} =>
               /\ th'[t].pc \in {"initversion", "clearauth", "first", "detected", "idle"}
               /\ th'[t].req = th[t].req
          /\ th[t].pc = "lock" => th'[t].pc \in {"lock", "send", "panic"} /\ th'[t].req = th[t].req
          /\ th[t].pc = "send" =>
               th'[t].pc \in {"send", "recv", "ret", "panic"} /\ th'[t].req = th[t].req
          /\ th[t].pc = "recv" => th'[t].pc \in {"recv", "ret", "panic"} /\ th'[t].req = th[t].req
          /\ th[t].pc = "ret" =>
               /\ th'[t].pc \in {"ret", "idle", "panic"} \cup
                                (IF th[t].op \in LoginOps THEN {"detect"} ELSE {}) \cup
                                (IF th[t].op = "Login(base.go)" THEN {"initversion"} ELSE {}) \cup
                                (IF InVersionBase(th[t]) THEN {"detected"} ELSE {})
               /\ th'[t].req = th[t].req
          /\ th[t].pc = "detect" =>
               th'[t].pc \in {"detect", "idle", "version", "panic"} /\ th'[t].req = th[t].req
          /\ th[t].pc = "version" =>
               \/ th'[t].pc \in {"version", "panic"} /\ th'[t].req = th[t].req
               \/ /\ th'[t].pc = "vsend"
                  /\ th'[t].req = VersionRequest(id') /\ id' = AddInt32(id, 1)
          /\ th[t].pc = "vsend" =>
               th'[t].pc \in {"vsend", "vrecv", "idle", "panic"} /\ th'[t].req = th[t].req
          /\ th[t].pc = "vrecv" =>
               th'[t].pc \in {"vrecv", "idle", "setversion", "panic"} /\ th'[t].req = th[t].req
          /\ th[t].pc \in VersionSteps =>
               th'[t].pc \in VersionSteps \cup {"idle", "panic"} /\ th'[t].req = th[t].req]_vars

\* C24 as stated: when user.login has succeeded and the version-info call
\* that follows fails, Login returns no error, the token is stored and no
\* 7.0-only feature is enabled.
C24_LoginSurvivesDetectionFailure ==
  [][\A t \in Threads :
       (/\ th[t].op \in LoginOps /\ th[t].pc \in {"vsend", "vrecv"}
        /\ th'[t].pc = "idle" /\ vm'.serverVersion = EmptyStr) =>
          /\ th'[t].err = "nil"
          /\ Auth' \in LoginTokens
          /\ \A f \in Features7 : ~IsFeatureSupported(vm', f)]_vars


\* a request that asks for output = "extend"
AsksExtend(arg) == arg.output = "extend" /\ ("fields" \in DOMAIN arg => arg.fields = << >>)

\* C25 as stated: every get wrapper asks for output = "extend" when the
\* caller names no output, and forwards the caller's output unchanged.
C25_GetDefaultsToExtend ==
  [][\A t \in Threads :
       (/\ th[t].pc \in {"gate", "get"} /\ OpKind(th[t].op) = "get"
        /\ th'[t].pc \in {"auth", "id"}) =>
          IF th[t].arg.output = "" THEN AsksExtend(th'[t].arg)
          ELSE th'[t].arg = th[t].arg]_vars

\* C25, amended: the get wrappers that take a params map (HostsGet, MFAGet,
\* ProxyGroupGet, Proxy7Get) ask for output = "extend" when the caller
\* names no output; UsersGet, AlertsGet and MediaTypesGet ask for their own
\* fixed list of fields instead; every one of them forwards the caller's
\* output unchanged.
C25_GetDefaultsByFamily ==
  [][\A t \in Threads :
       (/\ th[t].pc \in {"gate", "get"} /\ OpKind(th[t].op) = "get"
        /\ th'[t].pc \in {"auth", "id"}) =>
          IF th[t].arg.output # "" THEN th'[t].arg = th[t].arg
          ELSE IF th[t].op \in {"UsersGet", "AlertsGet", "MediaTypesGet"}
          THEN /\ th'[t].arg.output = ""
               /\ th'[t].arg.fields = GetOp(th[t].op).fields
               /\ Len(th'[t].arg.fields) = 5
          ELSE AsksExtend(th'[t].arg)]_vars

C25_Witness ==
  \E t \in Threads :
    /\ Back(t, "UsersGet") /\ th[t].err = "nil"
    /\ th[t].arg.fields = <<"userid", "username", "name", "surname", "roleid">>


\* C26 as stated: the correlation id grows with every request for the whole
\* life of the process, past 2^31 - 1 calls too, so the id of a request is
\* above the id of the request before it and never one used before.
C26_IdsGrowForever ==
  [][id' # id =>
       /\ id' > id
       /\ \A t \in Threads : th'[t].req # th[t].req => th'[t].req.id > th[t].req.id]_vars


\* C27 as stated: with an item adapter selected ItemsDeleteByIds gets to its
\* item.delete call: the adapter's DeleteItems is entered at most once for
\* one call of the caller, and the call never ends in a stack overflow.
C27_DeleteByIdsTerminates ==
  \A t \in Threads :
    th[t].op = "ItemsDeleteByIds" =>
       /\ th[t].pc # "panic"
       /\ th[t].pc \in {"adapter", "facade"} => th[t].arg.depth <= 1
       /\ (th[t].pc = "idle" /\ itemAdapter # "nil") => th[t].req.method = "item.delete"


\* C28: a Login or LoginWithToken whose user.login fails changes nothing:
\* every step it takes up to the return of the user.login call leaves the
\* token, the version manager and both adapters as they were; when the call
\* failed or its result is neither a string nor null it returns the error
\* in the next step, again leaving all of them as they were and building
\* no other request; and a Login goes on to the version-info call only
\* from a user.login that returned no error, with its token stored.
C28_FailedLoginChangesNothing ==
  [][\A t \in Threads :
       /\ (/\ th'[t].pc # th[t].pc
           /\ th'[t].op \in LoginOps
           /\ th'[t].pc \in {"auth", "id", "lock", "send", "recv", "ret"}) =>
              /\ Auth' = Auth /\ vm' = vm
              /\ itemAdapter' = itemAdapter /\ hostAdapter' = hostAdapter
       /\ (th[t].op \in LoginOps /\ th[t].pc = "ret" /\ th'[t].pc # "ret") =>
              IF th[t].err = "nil" /\ th[t].resp.result \in {"string", "null"}
              THEN th'[t].pc = "detect" /\ Auth' = Held(th[t].val) /\ Auth' \in LoginTokens
              ELSE /\ th'[t].pc = "idle" /\ th'[t].err # "nil"
                   /\ Auth' = Auth /\ vm' = vm
                   /\ itemAdapter' = itemAdapter /\ hostAdapter' = hostAdapter
                   /\ id' = id /\ netCalls' = netCalls
                   /\ th'[t].req = th[t].req
       /\ (th[t].op \in LoginOps /\ th[t].pc # "version" /\ th'[t].pc = "version") =>
              /\ th[t].pc = "detect"
              /\ th[t].err = "nil" /\ th[t].resp.result \in {"string", "null"}
              /\ Auth \in LoginTokens
              /\ vm.serverVersion = EmptyStr]_vars

C28_Witness ==
  \E t \in Threads :
    /\ Back(t, "LoginWithToken") /\ th[t].req.method = "user.login"
    /\ th[t].err = "protocol" /\ th[t].resp.result = "string"
    /\ Auth = "tokA" /\ vm.serverVersion = V700
    /\ netCalls = 3


\* C29: no step of a Logout touches the version manager or the adapters,
\* and it changes the token only by clearing it; a Login started right
\* after a Logout starts from the same version manager and adapters, and a
\* Login running with a version stored keeps that version and the adapters
\* and never builds a version-info request.
C29_LogoutKeepsVersion ==
  [][\A t \in Threads :
       /\ (th'[t].pc # th[t].pc /\ th'[t].op = "Logout") =>
              /\ vm' = vm /\ itemAdapter' = itemAdapter /\ hostAdapter' = hostAdapter
              /\ Auth' \in {Auth, ""}
       /\ (th[t].pc = "idle" /\ th[t].op = "Logout" /\ th'[t].op \in LoginOps) =>
              /\ vm' = vm /\ itemAdapter' = itemAdapter /\ hostAdapter' = hostAdapter
              /\ th'[t].req.method = "user.login"
       /\ (/\ th'[t].pc # th[t].pc /\ th[t].op \in LoginOps
           /\ th[t].pc \in {"auth", "id", "lock", "send", "recv", "ret", "detect"}
           /\ vm.serverVersion # EmptyStr) =>
              /\ vm' = vm /\ itemAdapter' = itemAdapter /\ hostAdapter' = hostAdapter
              /\ th'[t].req.method = "user.login"
              /\ th'[t].pc \in {"id", "auth", "lock", "send", "recv", "ret", "detect", "idle"}]_vars

\* the third request of a session with version 7.0.0 stored is a user.login
\* sent without token, the Logout before it having cleared it, and the
\* Login has returned a new token without a version-info call
C29_Witness ==
  \E t \in Threads :
    /\ Back(t, "Login") /\ th[t].err = "nil"
    /\ th[t].req = CallRequest("user.login", "", 3)
    /\ netCalls = 3 /\ id = 3
    /\ Auth \in Tokens
    /\ vm.serverVersion = V700 /\ itemAdapter = "Zabbix7ItemAdapter"


\* C30: in serialize mode the lock is held only by a thread that is inside
\* its call (CallWithError of part_004, callBytes of base.go), so every
\* way out of the call has released it; and a thread waiting for the lock
\* gets it in the end, and a thread inside a call gets to the return of
\* the call in the end, whatever the outcome of the calls before.
C30_LockReleasedAndWaitersProceed ==
  /\ [](ex # 0 => th[ex].pc \in {"send", "recv", "do", "readall"})
  /\ \A t \in Threads : (th[t].pc \in {"lock", "block"}) ~> (ex = t)
  /\ \A t \in Threads :
       (th[t].pc \in {"lock", "send", "recv", "request", "block", "do", "readall",
                      "unmarshal"}) ~> (th[t].pc = "ret")

\* a thread has returned from a failed call made under the lock, the lock is
\* free and the other thread is inside its own call holding it
C30_Witness ==
  \E t \in Threads : \E u \in Threads :
    /\ config.Serialize
    /\ Back(t, "Call") /\ th[t].err \in {"transport", "read", "decode", "protocol"}
    /\ th[u].pc = "recv" /\ ex = u
    /\ th[u].req.id > th[t].req.id

====
